---- MODULE Spec2Model ----
(***************************************************************************)
(* A model of the news crawler (src/news_crawler.py): the candidate        *)
(* resolution and temporal-deduplication engine.  Strings are sequences of *)
(* characters (one-character strings) or of tokens; timestamps are whole   *)
(* minutes with a sub-minute fraction, rendered by isoformat as a          *)
(* fixed-width text and compared as text where the code compares text.     *)
(***************************************************************************)
EXTENDS Integers, Sequences, FiniteSets, TLC

VARIABLES
    pc,          \* main: the step main() is at
    todo,        \* main: the sources (list pages, then feeds) still to harvest
    candidates,  \* main: the list `candidates`
    results,     \* main: the list `results`
    idx,         \* main: position of the article loop in `candidates`
    art,         \* main: the dict returned by extract_article for candidates[idx]
    client,      \* module level: whether the summarizer client is configured
    urls,        \* normalize_url: a URL and its successive normalisations
    an_base,     \* pick_article_anchor: the argument base_url
    an_card,     \* pick_article_anchor: the argument card
    an_pick,     \* pick_article_anchor: the values returned so far
    ls_url,      \* collect_from_list: the argument url
    ls_resp,     \* collect_from_list: what req returned (None, or the page)
    ls_out,      \* collect_from_list: the harvest states returned so far
    lb_d,        \* within_lookback: the argument d
    lb_ok,       \* within_lookback: the values returned so far (none before the call)
    harvested,   \* main: `candidates` as collected, before step 3 reassigns it
    accepted,    \* main: `results` as appended to, before step 5 reassigns it
    df,          \* main: the sorted frame the report is written from
    dd_rows,     \* dedupe_by_title_keep_latest: the argument rows
    dd_key,      \* dedupe_by_title_keep_latest: the argument time_key
    dd_out,      \* dedupe_by_title_keep_latest: the values returned so far
    ex_url,      \* extract_article: the argument url
    ex_page,     \* extract_article: what req returned (None, or the page)
    ex_dl,       \* extract_article: the text got from fetch_url when req failed
    ex_stage,    \* extract_article: the number of stages done
    ex_out,      \* extract_article: the dict `out`
    sm_in,       \* summarize_article: the arguments, the client and how its call ends
    sm_out,      \* summarize_article: the values returned so far
    fd_url,      \* collect_from_feed: the feed's url
    fd_resp,     \* collect_from_feed: what req returned (None, or the feed)
    fd_out,      \* collect_from_feed: the harvest states returned so far
    sc_href,     \* score_link_by_rules: the argument href
    sc_base,     \* score_link_by_rules: the argument base_host_raw
    sc_out,      \* score_link_by_rules: the values returned so far
    od_rows,     \* main, run twice: the candidates as collected by the first run
    od_arts,     \* main, run twice: what extract_article returns for each link
    od_runs      \* main, run twice: the results of the runs made so far

mainVars == <<pc, todo, candidates, results, idx, art, client, harvested, accepted, df>>

urlVars == <<urls>>

anchorVars == <<an_base, an_card, an_pick>>

listVars == <<ls_url, ls_resp, ls_out>>

lbVars == <<lb_d, lb_ok>>

dedupeVars == <<dd_rows, dd_key, dd_out>>

extractVars == <<ex_url, ex_page, ex_dl, ex_stage, ex_out>>

summaryVars == <<sm_in, sm_out>>

feedVars == <<fd_url, fd_resp, fd_out>>

scoreVars == <<sc_href, sc_base, sc_out>>

orderVars == <<od_rows, od_arts, od_runs>>

moreVars == <<summaryVars, feedVars, scoreVars, orderVars>>

vars == <<mainVars, urlVars, anchorVars, listVars, lbVars, dedupeVars, extractVars, moreVars>>

\* Python's None
None == [none |-> TRUE]

(***************************************************************************)
(* Time.  NOW is the reference instant, THRESHOLD = NOW - LOOKBACK_HOURS.  *)
(* An instant is [min, frac]: whole minutes since an epoch and the         *)
(* sub-minute part (the seconds.microseconds of a datetime).               *)
(***************************************************************************)
LOOKBACK_HOURS == 24

MinutesPerHour == 60

NowMinute == 1500

NowFrac == 3

FracWidth == 1

MinuteWidth == 4

RECURSIVE Pow10(_)
Pow10(n) == IF n = 0 THEN 1 ELSE 10 * Pow10(n - 1)

MaxFrac == Pow10(FracWidth) - 1

NOW == [min |-> NowMinute, frac |-> NowFrac]

MinusMinutes(t, n) == [min |-> t.min - n, frac |-> t.frac]

PlusMinutes(t, n) == [min |-> t.min + n, frac |-> t.frac]

THRESHOLD == MinusMinutes(NOW, LOOKBACK_HOURS * MinutesPerHour)

\* datetime comparison d1 >= d2
TimeGeq(d1, d2) == d1.min > d2.min \/ (d1.min = d2.min /\ d1.frac >= d2.frac)

TimeGt(d1, d2) == d1.min > d2.min \/ (d1.min = d2.min /\ d1.frac > d2.frac)

\* A datetime object is always truthy; only None is falsy.
Truthy(d) == d # None

within_lookback_strict(d) == Truthy(d) /\ TimeGt(d, THRESHOLD)

within_lookback_lenient(d) == ~Truthy(d) \/ TimeGeq(d, THRESHOLD)

within_lookback(d) == Truthy(d) /\ TimeGeq(d, THRESHOLD)

(***************************************************************************)
(* isoformat / fromisoformat.  The text is the zero-padded count of local  *)
(* minutes, then "." and the fraction digits only when the fraction is not *)
(* zero, then the UTC offset.  JST is the zone Asia/Tokyo of the time zone *)
(* database: +09:00, except in the summer-time periods of its past, when   *)
(* the local clock was one hour ahead (+10:00).  Instants are counted on   *)
(* the +09:00 clock.  Characters are their ASCII codes so that text        *)
(* comparison is comparison of code sequences.                             *)
(***************************************************************************)
ChPlus == 43

ChDot == 46

ChZero == 48

\* a summer-time period of the zone, before the lookback window
DstStart == 10

DstEnd == 40

DstShift == MinutesPerHour

StdOffset == <<ChPlus, ChZero, ChZero + 9>>

DstOffset == <<ChPlus, ChZero + 1, ChZero>>

InDst(d) == DstStart <= d.min /\ d.min < DstEnd

\* minutes the local clock is ahead of the +09:00 clock at the instant d
utcoffset(d) == IF InDst(d) THEN DstShift ELSE 0

Digits(n, w) == [i \in 1..w |-> ChZero + ((n \div Pow10(w - i)) % 10)]

isoformat(d) ==
    Digits(d.min + utcoffset(d), MinuteWidth)
        \o (IF d.frac # 0 THEN <<ChDot>> \o Digits(d.frac, FracWidth) ELSE <<>>)
        \o (IF InDst(d) THEN DstOffset ELSE StdOffset)

RECURSIVE DigitsValue(_)
DigitsValue(s) ==
    IF s = <<>> THEN 0
    ELSE 10 * DigitsValue(SubSeq(s, 1, Len(s) - 1)) + (s[Len(s)] - ChZero)

\* the instant of a local time text with its offset text
FromParts(digits, frac, offset) ==
    [min |-> DigitsValue(digits) - (IF offset = DstOffset THEN DstShift ELSE 0),
     frac |-> DigitsValue(frac)]

\* raises ValueError (modelled as None) on text that is not an isoformat
fromisoformat(s) ==
    IF /\ Len(s) = MinuteWidth + 3
       /\ SubSeq(s, MinuteWidth + 1, Len(s)) \in {StdOffset, DstOffset}
    THEN FromParts(SubSeq(s, 1, MinuteWidth), <<>>, SubSeq(s, MinuteWidth + 1, Len(s)))
    ELSE IF /\ Len(s) = MinuteWidth + FracWidth + 4
            /\ s[MinuteWidth + 1] = ChDot
            /\ SubSeq(s, MinuteWidth + FracWidth + 2, Len(s)) \in {StdOffset, DstOffset}
    THEN FromParts(SubSeq(s, 1, MinuteWidth),
                   SubSeq(s, MinuteWidth + 2, MinuteWidth + FracWidth + 1),
                   SubSeq(s, MinuteWidth + FracWidth + 2, Len(s)))
    ELSE None

\* Python's str comparison a >= b: by code, position by position
RECURSIVE StrGeq(_, _)
StrGeq(a, b) ==
    IF b = <<>> THEN TRUE
    ELSE IF a = <<>> THEN FALSE
    ELSE IF a[1] # b[1] THEN a[1] > b[1]
    ELSE StrGeq(Tail(a), Tail(b))

(***************************************************************************)
(* normalize_title.  A title is a sequence of characters; the classes the  *)
(* code's regular expressions distinguish are: white space, quote          *)
(* characters (removed), bracket and separator characters (become a        *)
(* space), punctuation runs (become a space), upper-case letters.          *)
(***************************************************************************)
IsSpace(c) == c = " "

IsQuote(c) == c = "'"

IsPunct(c) == c \in {"!", ":", "("}

Lower(c) == IF c = "A" THEN "a" ELSE IF c = "B" THEN "b" ELSE c

RECURSIVE LStrip(_)
LStrip(s) == IF s # <<>> /\ IsSpace(s[1]) THEN LStrip(Tail(s)) ELSE s

RECURSIVE RStrip(_)
RStrip(s) ==
    IF s # <<>> /\ IsSpace(s[Len(s)]) THEN RStrip(SubSeq(s, 1, Len(s) - 1)) ELSE s

Strip(s) == RStrip(LStrip(s))

\* re.sub(r"\s+", " ", s)
RECURSIVE CollapseSpaces(_)
CollapseSpaces(s) ==
    IF Len(s) < 2 THEN s
    ELSE IF IsSpace(s[1]) /\ IsSpace(s[2]) THEN CollapseSpaces(Tail(s))
    ELSE <<s[1]>> \o CollapseSpaces(Tail(s))

\* lower(), then the quote characters removed and the separator, bracket and
\* punctuation characters replaced by a space
RECURSIVE MapChars(_)
MapChars(s) ==
    IF s = <<>> THEN <<>>
    ELSE IF IsQuote(s[1]) THEN MapChars(Tail(s))
    ELSE IF IsPunct(s[1]) THEN <<" ">> \o MapChars(Tail(s))
    ELSE <<Lower(s[1])>> \o MapChars(Tail(s))

normalize_title(t) == Strip(CollapseSpaces(MapChars(CollapseSpaces(Strip(t)))))

(***************************************************************************)
(* Deduplication by title, keeping the newer row.  A row is a record; the  *)
(* time field named by time_key holds isoformat text, or the empty text.   *)
(***************************************************************************)
Get(r, k) == IF k \in DOMAIN r THEN r[k] ELSE <<>>

\* the comparison of the two time texts ta and tb
PickByText(a, ta, b, tb) ==
    IF ta # <<>> /\ tb # <<>> THEN (IF StrGeq(ta, tb) THEN a ELSE b)
    ELSE IF ta # <<>> /\ tb = <<>> THEN a
    ELSE IF tb # <<>> /\ ta = <<>> THEN b
    ELSE a

pick_first_seen(a, b, time_key) == a

pick_newer_by_time(a, b, time_key) == PickByText(a, Get(a, time_key), b, Get(b, time_key))

\* best[key] = r for a key not in best, the keys kept in insertion order
Insert(st, key, r) ==
    [keys |-> Append(st.keys, key),
     best |-> [k \in DOMAIN st.best \cup {key} |-> IF k = key THEN r ELSE st.best[k]]]

\* the body of the loop for a row whose stripped title is not empty
Keep(st, key, r, time_key) ==
    IF key \notin DOMAIN st.best THEN Insert(st, key, r)
    ELSE [st EXCEPT !.best[key] = pick_newer_by_time(st.best[key], r, time_key)]

\* One iteration of the loop over rows: st is [keys, best], the dict `best`
\* as its keys in insertion order and its values.
DedupeStep(st, r, time_key) ==
    IF Strip(Get(r, "title")) = <<>> THEN st
    ELSE Keep(st, normalize_title(Strip(Get(r, "title"))), r, time_key)

EmptyBest == [keys |-> <<>>, best |-> [k \in {} |-> <<>>]]

RECURSIVE DedupeFold(_, _, _)
DedupeFold(st, rows, time_key) ==
    IF rows = <<>> THEN st
    ELSE DedupeFold(DedupeStep(st, rows[1], time_key), Tail(rows), time_key)

\* list(best.values())
Values(st) == [i \in 1..Len(st.keys) |-> st.best[st.keys[i]]]

dedupe_keep_all(rows, time_key) == rows

dedupe_by_title_keep_latest(rows, time_key) == Values(DedupeFold(EmptyBest, rows, time_key))

(***************************************************************************)
(* URLs.  A URL is [scheme, netloc, path, slash, tail]: netloc is the      *)
(* sequence of the host's dot-separated labels, path the sequence of the   *)
(* path's segments, slash whether the path ends in "/", and tail the text  *)
(* after the path ("?query#fragment") as a sequence of tokens.  A token is *)
(* a delimiter ("?", "#", "&", "="), a percent-escape, or a word.          *)
(***************************************************************************)
LowerTok(w) ==
    CASE w = "UTM_" -> "utm_"
      [] w = "SK" -> "sk"
      [] w = "WWW" -> "www"
      [] w = "Medium" -> "medium"
      [] OTHER -> w

LowerAll(s) == [i \in DOMAIN s |-> LowerTok(s[i])]

\* norm_host: lower-case, drop one leading "www."
norm_host(host) ==
    LET h == LowerAll(host)
    IN  IF Len(h) >= 2 /\ h[1] = "www" THEN Tail(h) ELSE h

\* urllib.parse.unquote_plus / quote_plus on one token
Unquote(w) ==
    CASE w = "%3F" -> "?"
      [] w = "%3D" -> "="
      [] w = "%26" -> "&"
      [] w = "%23" -> "#"
      [] OTHER -> w

Quote(w) ==
    CASE w = "?" -> "%3F"
      [] w = "=" -> "%3D"
      [] w = "&" -> "%26"
      [] w = "#" -> "%23"
      [] OTHER -> w

UnquoteAll(s) == [i \in DOMAIN s |-> Unquote(s[i])]

QuoteAll(s) == [i \in DOMAIN s |-> Quote(s[i])]


\* position of the first token w in s, or 0
RECURSIVE IndexOf(_, _, _)
IndexOf(s, w, i) ==
    IF i > Len(s) THEN 0 ELSE IF s[i] = w THEN i ELSE IndexOf(s, w, i + 1)

\* s.split(w)
RECURSIVE Split(_, _)
Split(s, w) ==
    LET i == IndexOf(s, w, 1)
    IN  IF i = 0 THEN <<s>>
        ELSE <<SubSeq(s, 1, i - 1)>> \o Split(SubSeq(s, i + 1, Len(s)), w)

\* urlparse on the text after the path: [query, fragment]
ParseTail(tail) ==
    LET h == IndexOf(tail, "#", 1)
        before == IF h = 0 THEN tail ELSE SubSeq(tail, 1, h - 1)
        frag == IF h = 0 THEN <<>> ELSE SubSeq(tail, h + 1, Len(tail))
        query == IF before # <<>> /\ before[1] = "?" THEN Tail(before) ELSE <<>>
    IN  [query |-> query, fragment |-> frag]

\* parse_qsl(query, keep_blank_values=True): the (key, value) pairs, decoded
RECURSIVE PairsOf(_)
PairsOf(pieces) ==
    IF pieces = <<>> THEN <<>>
    ELSE LET nv == pieces[1]
             e == IndexOf(nv, "=", 1)
             k == IF e = 0 THEN nv ELSE SubSeq(nv, 1, e - 1)
             v == IF e = 0 THEN <<>> ELSE SubSeq(nv, e + 1, Len(nv))
         IN  (IF nv = <<>> THEN <<>>
              ELSE <<[k |-> UnquoteAll(k), v |-> UnquoteAll(v)]>>)
             \o PairsOf(Tail(pieces))

parse_qsl(query) == IF query = <<>> THEN <<>> ELSE PairsOf(Split(query, "&"))

\* k.lower().startswith(("utm_", "ref", "source", "mkt_tok")) or k.lower() in {"sk"}
IsTrackingKey(k) ==
    \/ k # <<>> /\ LowerTok(k[1]) \in {"utm_", "ref", "source", "mkt_tok"}
    \/ LowerAll(k) = <<"sk">>

RECURSIVE SelectPairs(_)
SelectPairs(q) ==
    IF q = <<>> THEN <<>>
    ELSE (IF IsTrackingKey(q[1].k) THEN <<>> ELSE <<q[1]>>) \o SelectPairs(Tail(q))

\* urlencode(q, doseq=True)
RECURSIVE urlencode(_)
urlencode(q) ==
    IF q = <<>> THEN <<>>
    ELSE QuoteAll(q[1].k) \o <<"=">> \o QuoteAll(q[1].v)
         \o (IF Len(q) > 1 THEN <<"&">> \o urlencode(Tail(q)) ELSE <<>>)

\* ParseResult.geturl(): empty components are left out with their delimiter
UnparseTail(query, fragment) ==
    (IF query # <<>> THEN <<"?">> \o query ELSE <<>>)
        \o (IF fragment # <<>> THEN <<"#">> \o fragment ELSE <<>>)

\* re.sub(r"\?+$", "", s)
RECURSIVE StripTrailingQ(_)
StripTrailingQ(s) ==
    IF s # <<>> /\ s[Len(s)] = "?" THEN StripTrailingQ(SubSeq(s, 1, Len(s) - 1)) ELSE s

\* the query and fragment of p put together again, tracking pairs dropped
UnparseFiltered(p) ==
    StripTrailingQ(UnparseTail(urlencode(SelectPairs(parse_qsl(p.query))), p.fragment))

NormalizeTail(tail) == UnparseFiltered(ParseTail(tail))

normalize_url(u) == [u EXCEPT !.tail = NormalizeTail(u.tail)]

(***************************************************************************)
(* Site rules.  A pattern is named by the regular expression it stands     *)
(* for; Matches evaluates re.search(pattern, path) on the path's segments. *)
(* Segments are tokens: the classes of segment the patterns tell apart are *)
(* given by the sets below.                                                *)
(***************************************************************************)
PostSegs == {"post-123"}            \* segments matching post-\d+

Year4Segs == {"2024"}               \* segments matching \d{4}

Month2Segs == {"05"}               \* segments matching \d{2}

HexSlugSegs == {"story-0123456789ab"}  \* segments matching [^/]+-[0-9a-fA-F]{12}

HexSegs == {"0123456789ab"}        \* segments matching [0-9a-fA-F]{12}

\* r"/name/" with name one of names: a segment that is followed by "/"
HasDir(u, names) ==
    \E i \in DOMAIN u.path : u.path[i] \in names /\ (i < Len(u.path) \/ u.slash)

\* r"^/name/"
RootDir(u, names) ==
    /\ u.path # <<>>
    /\ u.path[1] \in names
    /\ (Len(u.path) > 1 \/ u.slash)

\* ^/[^/]+/articles/[^/]+/?$
ZENN_ARTICLE_RE(u) == Len(u.path) = 3 /\ u.path[2] = "articles"

\* ^/articles/[^/]+/?$
ZENN_USERLESS_RE(u) == Len(u.path) = 2 /\ u.path[1] = "articles"

\* ^/\d{4}/\d{2}/[^/][^?#]*(?:\.html)?/?(?:\?.*)?$
KDN_ARTICLE_RE(u) ==
    /\ Len(u.path) >= 3
    /\ u.path[1] \in Year4Segs
    /\ u.path[2] \in Month2Segs

Matches(pat, u) ==
    CASE pat = "/author/" -> HasDir(u, {"author"})
      [] pat = "/users?/" -> HasDir(u, {"user", "users"})
      [] pat = "/tag/" -> HasDir(u, {"tag"})
      [] pat = "/category/" -> HasDir(u, {"category"})
      [] pat = "/topics/" -> HasDir(u, {"topics"})
      [] pat = "/people/" -> HasDir(u, {"people"})
      [] pat = "/authors?/" -> HasDir(u, {"author", "authors"})
      [] pat = "/about/" -> HasDir(u, {"about"})
      [] pat = "/blog/" -> HasDir(u, {"blog"})
      [] pat = "/atcl/" -> HasDir(u, {"atcl"})
      [] pat = "/post-\\d+" -> \E i \in DOMAIN u.path : u.path[i] \in PostSegs
      [] pat = "^/users?/" -> RootDir(u, {"user", "users"})
      [] pat = "^/topics/" -> RootDir(u, {"topics"})
      [] pat = "^/books/" -> RootDir(u, {"books"})
      [] pat = "^/scraps/" -> RootDir(u, {"scraps"})
      [] pat = "^/tag/" -> RootDir(u, {"tag"})
      [] pat = "^/tags?/" -> RootDir(u, {"tag", "tags"})
      [] pat = "ZENN_ARTICLE_RE" -> ZENN_ARTICLE_RE(u)
      [] pat = "ZENN_USERLESS_RE" -> ZENN_USERLESS_RE(u)
      [] pat = "KDN_ARTICLE_RE" -> KDN_ARTICLE_RE(u)
      [] pat = "[0-9a-fA-F]{12}$" ->
            /\ u.path # <<>>
            /\ u.path[Len(u.path)] \in HexSlugSegs \cup HexSegs
            /\ ~u.slash
      [] pat = "^/towards-data-science/[^/]+-[0-9a-fA-F]{12}$" ->
            /\ Len(u.path) = 2 /\ ~u.slash
            /\ u.path[1] = "towards-data-science" /\ u.path[2] \in HexSlugSegs
      [] pat = "^/p/[0-9a-fA-F]{12}$" ->
            /\ Len(u.path) = 2 /\ ~u.slash
            /\ u.path[1] = "p" /\ u.path[2] \in HexSegs

BusinessInsider == <<"businessinsider", "jp">>

NikkeiBusiness == <<"business", "nikkei", "com">>

Hatena == <<"b", "hatena", "ne", "jp">>

Zenn == <<"zenn", "dev">>

HuggingFace == <<"huggingface", "co">>

Kdnuggets == <<"kdnuggets", "com">>

TowardsDataScience == <<"towardsdatascience", "com">>

Medium == <<"medium", "com">>

OpenAI == <<"openai", "com">>

Qiita == <<"qiita", "com">>

NoRule == [include |-> <<>>, exclude |-> <<>>, hatena_special |-> FALSE]

\* SITE_RULES.get(host, {}), for the hosts of the model
SITE_RULES(host) ==
    CASE host = BusinessInsider ->
            [NoRule EXCEPT !.include = <<"/post-\\d+">>,
                           !.exclude = <<"/author/", "/category/", "/tag/">>]
      [] host = NikkeiBusiness ->
            [NoRule EXCEPT !.include = <<"/atcl/">>,
                           !.exclude = <<"/author/", "/category/", "/tag/">>]
      [] host = Hatena -> [NoRule EXCEPT !.hatena_special = TRUE]
      [] host = Zenn ->
            [NoRule EXCEPT !.include = <<"ZENN_ARTICLE_RE", "ZENN_USERLESS_RE">>,
                           !.exclude = <<"^/users?/", "^/topics/", "^/books/",
                                         "^/scraps/", "^/tags?/">>]
      [] host = HuggingFace ->
            [NoRule EXCEPT !.include = <<"/blog/">>, !.exclude = <<"/authors?/">>]
      [] host = Kdnuggets ->
            [NoRule EXCEPT !.include = <<"KDN_ARTICLE_RE">>,
                           !.exclude = <<"^/tag/", "^/tags?/">>]
      [] host = TowardsDataScience -> NoRule
      [] host = Medium ->
            [NoRule EXCEPT
                !.include = <<"^/towards-data-science/[^/]+-[0-9a-fA-F]{12}$",
                              "^/p/[0-9a-fA-F]{12}$">>,
                !.exclude = <<"^/tag/", "/about/">>]
      [] OTHER -> NoRule

COMMON_EXCLUDES == <<"/author/", "/users?/", "/tag/", "/category/", "/topics/", "/people/">>

\* the keys of CROSS_HOST_ALLOW, and CROSS_HOST_ALLOW.get(host, set())
CrossHostKeys == {TowardsDataScience}

CROSS_HOST_ALLOW(host) ==
    IF host = TowardsDataScience THEN {TowardsDataScience, Medium} ELSE {}

ALLOW_NO_LIST_TIME ==
    {Kdnuggets, TowardsDataScience, Medium, OpenAI, HuggingFace, Zenn,
     NikkeiBusiness, BusinessInsider}

\* the number of patterns of pats that match
RECURSIVE CountMatches(_, _)
CountMatches(pats, u) ==
    IF pats = <<>> THEN 0
    ELSE (IF Matches(pats[1], u) THEN 1 ELSE 0) + CountMatches(Tail(pats), u)

AnyMatch(pats, u) == \E i \in DOMAIN pats : Matches(pats[i], u)

Min(a, b) == IF a <= b THEN a ELSE b

IsHttp(u) == u.scheme \in {"http", "https"}

ScorePenalty == 100

IncludeBonus == 20

\* the score of the path of href under the patterns of rules
RuleScore(href, rules) ==
    - ScorePenalty * CountMatches(COMMON_EXCLUDES, href)
    + IncludeBonus * CountMatches(rules.include, href)
    - ScorePenalty * CountMatches(rules.exclude, href)
    + (IF Matches("[0-9a-fA-F]{12}$", href) THEN 3 ELSE 0)
    + Min(IF href.path = <<>> THEN 0 ELSE Len(href.path) - 1, 4)

\* rules_host = base_host
score_link_by_rules(href, base_host_raw) ==
    IF ~IsHttp(href) THEN -999
    ELSE RuleScore(href, SITE_RULES(norm_host(base_host_raw)))

(***************************************************************************)
(* pick_article_anchor.  A card is [anchors, title, meta]; an anchor is    *)
(* [href, entry_link, bad, good, permalink]: the absolute URL of its href  *)
(* (after urljoin), whether it has class entry-link, how many of the       *)
(* author/tag keywords and of the headline classes its text and class      *)
(* carry, and whether it has rel=permalink.                                *)
(***************************************************************************)
ZennOk(u) == ZENN_ARTICLE_RE(u) \/ ZENN_USERLESS_RE(u)

KdnOk(u) == KDN_ARTICLE_RE(u) /\ ~(Matches("^/tag/", u) \/ Matches("^/tags?/", u))

NikkeiOk(u) == Matches("/atcl/", u) /\ ~AnyMatch(COMMON_EXCLUDES, u)

BIOk(u) == Matches("/post-\\d+", u)

\* the test a host's pre-pass applies to an anchor's normalised URL
PrepassOk(host, u) ==
    CASE host = Zenn -> ZennOk(u)
      [] host = Kdnuggets -> KdnOk(u)
      [] host = NikkeiBusiness -> NikkeiOk(u)
      [] host = BusinessInsider -> BIOk(u)
      [] OTHER -> FALSE

\* the pre-pass loop: the first anchor whose normalised URL passes, else None
RECURSIVE FirstHref(_, _)
FirstHref(anchors, host) ==
    IF anchors = <<>> THEN None
    ELSE IF PrepassOk(host, normalize_url(anchors[1].href))
    THEN normalize_url(anchors[1].href)
    ELSE FirstHref(Tail(anchors), host)

AnchorScore(a, base_host_raw) ==
    score_link_by_rules(normalize_url(a.href), base_host_raw)
        - 30 * a.bad + 10 * a.good + (IF a.permalink THEN 10 ELSE 0)

\* the scoring loop: best is [href, score]
Better(a, score, best) ==
    IF a.href.scheme \in {"mailto", "tel"} THEN best
    ELSE IF score > best.score THEN [href |-> normalize_url(a.href), score |-> score]
    ELSE best

RECURSIVE ScoreLoop(_, _, _)
ScoreLoop(anchors, base_host_raw, best) ==
    IF anchors = <<>> THEN best
    ELSE ScoreLoop(Tail(anchors), base_host_raw,
                   Better(anchors[1], AnchorScore(anchors[1], base_host_raw), best))

\* the gate after the loop: a best href matching a common exclude is dropped
ExcludeGate(href) ==
    IF href # None /\ AnyMatch(COMMON_EXCLUDES, href) THEN None ELSE href

GenericPick(anchors, base_host_raw) ==
    ExcludeGate(ScoreLoop(anchors, base_host_raw, [href |-> None, score |-> -1000000000]).href)

IsEntryLink(a) == a.entry_link

\* the passes after the hatena branch, for a card with at least one anchor
OrGeneric(prepass, anchors, base_host_raw) ==
    IF prepass # None THEN prepass ELSE GenericPick(anchors, base_host_raw)

\* every host with a pre-pass falling back to the generic scoring
pick_with_fallback(card, base_url) ==
    IF /\ SITE_RULES(norm_host(base_url.netloc)).hatena_special
       /\ SelectSeq(card.anchors, IsEntryLink) # <<>>
    THEN normalize_url(SelectSeq(card.anchors, IsEntryLink)[1].href)
    ELSE IF card.anchors = <<>> THEN None
    ELSE OrGeneric(FirstHref(card.anchors, norm_host(base_url.netloc)),
                   card.anchors, base_url.netloc)

pick_article_anchor(card, base_url) ==
    IF /\ SITE_RULES(norm_host(base_url.netloc)).hatena_special
       /\ SelectSeq(card.anchors, IsEntryLink) # <<>>
    THEN normalize_url(SelectSeq(card.anchors, IsEntryLink)[1].href)
    ELSE IF card.anchors = <<>> THEN None
    ELSE IF norm_host(base_url.netloc) \in {Zenn, Kdnuggets}
    THEN FirstHref(card.anchors, norm_host(base_url.netloc))
    ELSE IF norm_host(base_url.netloc) \in {NikkeiBusiness, BusinessInsider}
    THEN OrGeneric(FirstHref(card.anchors, norm_host(base_url.netloc)),
                   card.anchors, base_url.netloc)
    ELSE GenericPick(card.anchors, base_url.netloc)

(***************************************************************************)
(* Time hints.  The text of a hint is abstracted to what                   *)
(* parse_datetime_text makes of it: [kind |-> "abs", t |-> instant] for an *)
(* absolute date, [kind |-> "rel", n |-> minutes] for "n minutes ago",     *)
(* [kind |-> "junk"] for text no pattern recognises and [kind |-> "empty"] *)
(* for the empty text.  The subtraction base - timedelta is outside any    *)
(* try block: it raises OverflowError when the result is before the first  *)
(* representable instant (minute 0 of the model).                          *)
(***************************************************************************)
AbsHint(t) == [kind |-> "abs", t |-> t]

RelHint(n) == [kind |-> "rel", n |-> n]

JunkHint == [kind |-> "junk"]

\* the text ""
NoText == [kind |-> "empty"]

Raised == [raised |-> "OverflowError"]

parse_datetime_text(s, base) ==
    CASE s.kind \in {"junk", "empty"} -> None
      [] s.kind = "abs" -> s.t
      [] s.kind = "rel" -> IF base.min - s.n < 0 THEN Raised ELSE MinusMinutes(base, s.n)

\* the first hint inside the window, later ones ignored
FirstWithin(cand, text, best) ==
    IF best = Raised \/ cand = Raised THEN Raised
    ELSE IF cand # None /\ within_lookback(cand) /\ best.dt = None
    THEN [dt |-> cand, src |-> text]
    ELSE best

\* the loop of any_within: best is [dt, src], or Raised once a parse raised
Later(cand, text, best) ==
    IF best = Raised \/ cand = Raised THEN Raised
    ELSE IF /\ cand # None /\ within_lookback(cand)
            /\ (best.dt = None \/ TimeGt(cand, best.dt))
    THEN [dt |-> cand, src |-> text]
    ELSE best

RECURSIVE AnyWithinLoop(_, _)
AnyWithinLoop(texts, best) ==
    IF texts = <<>> THEN best
    ELSE AnyWithinLoop(Tail(texts), Later(parse_datetime_text(texts[1], NOW), texts[1], best))

\* [ok, dt, src], or Raised
WithinResult(best) ==
    IF best = Raised THEN Raised
    ELSE [ok |-> best.dt # None, dt |-> best.dt, src |-> best.src]

any_within(texts) == WithinResult(AnyWithinLoop(texts, [dt |-> None, src |-> NoText]))

(***************************************************************************)
(* extract_list_candidates.  A fetched page is [cards, parents]: the       *)
(* elements the selector finds, and the parent elements of the page's      *)
(* anchors (the pseudo-cards of the last-resort pass).  The harvest state  *)
(* is [items, seen, raised].                                               *)
(***************************************************************************)
\* the body of push_card once the card's link and time hint are computed
PushLink(link, w, card, url, allowed_norm, st) ==
    IF st.raised \/ link = None THEN st
    ELSE IF /\ allowed_norm # <<>>
            /\ norm_host(link.netloc) \notin allowed_norm[1]
            /\ ~SITE_RULES(norm_host(url.netloc)).hatena_special
    THEN st
    ELSE IF w = Raised THEN [st EXCEPT !.raised = TRUE]
    ELSE IF ~w.ok /\ norm_host(url.netloc) \notin ALLOW_NO_LIST_TIME THEN st
    ELSE IF <<Strip(card.title), normalize_url(link)>> \in st.seen THEN st
    ELSE [st EXCEPT
            !.seen = @ \cup {<<Strip(card.title), normalize_url(link)>>},
            !.items = Append(@,
                [source_list |-> url,
                 title |-> Strip(card.title),
                 link |-> normalize_url(link),
                 list_time_guess |-> IF w.ok THEN isoformat(w.dt) ELSE <<>>,
                 list_time_raw |-> IF w.ok THEN w.src ELSE NoText])]

push_card(card, url, allowed_norm, st) ==
    PushLink(pick_article_anchor(card, url), any_within(card.meta), card, url, allowed_norm, st)

RECURSIVE PushAll(_, _, _, _)
PushAll(cards, url, allowed_norm, st) ==
    IF cards = <<>> THEN st
    ELSE PushAll(Tail(cards), url, allowed_norm, push_card(cards[1], url, allowed_norm, st))

\* the last-resort pass over the parents of the page's anchors
RECURSIVE PushParents(_, _, _, _)
PushParents(parents, url, allowed_norm, st) ==
    IF parents = <<>> THEN st
    ELSE PushParents(Tail(parents), url, allowed_norm,
                     push_card(parents[1], url, allowed_norm, st))

LastResort(first, url, allowed_norm, resp) ==
    IF first.items = <<>> /\ ~first.raised
    THEN PushParents(resp.parents, url, allowed_norm, first)
    ELSE first

EmptyHarvest == [items |-> <<>>, seen |-> {}, raised |-> FALSE]

NormAll(hosts) == {norm_host(h) : h \in hosts}

\* allowed_hosts is <<>> for None and <<S>> for the set S
AllowedNorm(allowed_hosts) ==
    IF allowed_hosts # <<>> THEN <<NormAll(allowed_hosts[1])>> ELSE <<>>

\* resp is None when req failed, else the fetched page
extract_list_candidates(url, allowed_hosts, resp) ==
    IF resp = None THEN EmptyHarvest
    ELSE LastResort(PushAll(resp.cards, url, AllowedNorm(allowed_hosts), EmptyHarvest),
                    url, AllowedNorm(allowed_hosts), resp)

\* allowed_hosts = None on every page
AnyHostAllowed(base_host) == <<>>

\* the allowed_hosts argument collect_from_list passes
AllowedHosts(base_host) ==
    IF base_host \in CrossHostKeys THEN <<CROSS_HOST_ALLOW(base_host)>>
    ELSE IF SITE_RULES(base_host).hatena_special THEN <<>>
    ELSE <<{base_host}>>

collect_from_list(url, resp) ==
    extract_list_candidates(url, AllowedHosts(norm_host(url.netloc)), resp)

(***************************************************************************)
(* Feeds.  What req returns for a feed is None (the request failed) or     *)
(* [empty, wellformed, entries]: whether the body is empty, whether        *)
(* ET.fromstring parses it, and the item/entry nodes a parser finds, each  *)
(* [title, link, published_raw] with link an optional URL (<<>> or <<u>>). *)
(***************************************************************************)
FeedItem(e) ==
    [title |-> Strip(e.title), link |-> normalize_url(e.link[1]),
     published_raw |-> e.published_raw]

\* _parse_root_to_items: an entry needs a title and a link
RECURSIVE parse_root_to_items(_)
parse_root_to_items(entries) ==
    IF entries = <<>> THEN <<>>
    ELSE (IF Strip(entries[1].title) # <<>> /\ entries[1].link # <<>>
          THEN <<FeedItem(entries[1])>> ELSE <<>>)
         \o parse_root_to_items(Tail(entries))

\* the fallback parser: the link must also start with "http"
RECURSIVE SoupItems(_)
SoupItems(entries) ==
    IF entries = <<>> THEN <<>>
    ELSE (IF /\ Strip(entries[1].title) # <<>>
             /\ entries[1].link # <<>>
             /\ IsHttp(entries[1].link[1])
          THEN <<FeedItem(entries[1])>> ELSE <<>>)
         \o SoupItems(Tail(entries))

parse_feed_items(resp) ==
    IF resp = None THEN <<>>
    ELSE IF resp.empty THEN <<>>
    ELSE IF resp.wellformed THEN parse_root_to_items(resp.entries)
    ELSE SoupItems(resp.entries)

FeedRow(it, url, pub_dt) ==
    [source_list |-> url,
     title |-> Strip(it.title),
     link |-> normalize_url(it.link),
     list_time_guess |-> IF pub_dt # None THEN isoformat(pub_dt) ELSE <<>>,
     list_time_raw |-> it.published_raw]

\* one iteration of the loop of collect_from_feed: st is [items, raised]
FeedPush(it, url, pub_dt, st) ==
    IF st.raised THEN st
    ELSE IF Strip(it.title) = <<>> \/ ~IsHttp(normalize_url(it.link)) THEN st
    ELSE IF pub_dt = Raised THEN [st EXCEPT !.raised = TRUE]
    ELSE [st EXCEPT !.items = Append(@, FeedRow(it, url, pub_dt))]

RECURSIVE FeedLoop(_, _, _)
FeedLoop(items, url, st) ==
    IF items = <<>> THEN st
    ELSE FeedLoop(Tail(items), url,
                  FeedPush(items[1], url, parse_datetime_text(items[1].published_raw, NOW), st))

collect_from_feed(url, resp) ==
    FeedLoop(parse_feed_items(resp), url, [items |-> <<>>, raised |-> FALSE])

(***************************************************************************)
(* extract_article.  A text is [lead, core, trail]: the numbers of its     *)
(* leading white-space characters, of the characters from its first to its *)
(* last non-blank character, and of its trailing white-space characters.   *)
(* A fetched page is [trafi, readab, paras, title_tag, canonical, og_url,  *)
(* time_texts, next_data]: the text trafilatura extracts (empty when it    *)
(* returns None or raises), what readability gives (None when it raises,   *)
(* else [text, title]), the joined paragraphs of 20 characters or more,    *)
(* the optional og:title/title, the optional canonical link and og:url,    *)
(* the time strings collected from the page, and the date strings of the   *)
(* __NEXT_DATA__ script.                                                    *)
(***************************************************************************)
MinBodyChars == 200

EmptyText == [lead |-> 0, core |-> 0, trail |-> 0]

TextLen(t) == t.lead + t.core + t.trail

\* str.strip()
StripText(t) == IF t.core = 0 THEN EmptyText ELSE [lead |-> 0, core |-> t.core, trail |-> 0]

EmptyOut ==
    [text |-> EmptyText, published_dt |-> None, published_raw |-> NoText,
     title_override |-> <<>>, canonical_url |-> <<>>]

\* stage 1: trafilatura on the fetched page
TrafilaturaStage(page, out) ==
    IF page # None /\ TextLen(page.trafi) >= MinBodyChars
    THEN [out EXCEPT !.text = StripText(page.trafi)]
    ELSE out

FetchUrlAlways(page) == TRUE

\* `if not r`
FetchUrlRuns(page) == page = None

\* stage 2: trafilatura's own download, dl the text it extracts (empty when
\* the download or the extraction gives nothing or raises)
FetchUrlStage(page, dl, out) ==
    IF FetchUrlRuns(page) /\ TextLen(dl) > 0
    THEN [out EXCEPT !.text = StripText(dl)]
    ELSE out

\* stage 3: readability
ReadabilityStage(page, out) ==
    IF page # None /\ TextLen(out.text) < MinBodyChars /\ page.readab # None
    THEN [out EXCEPT
            !.text = IF TextLen(StripText(page.readab.text)) > TextLen(@)
                     THEN StripText(page.readab.text) ELSE @,
            !.title_override = IF @ = <<>> THEN page.readab.title ELSE @]
    ELSE out

\* stage 4: the paragraphs of the page joined
ParagraphStage(page, out) ==
    IF /\ page # None /\ TextLen(out.text) < MinBodyChars
       /\ TextLen(page.paras) > 0
       /\ TextLen(page.paras) > TextLen(out.text)
    THEN [out EXCEPT !.text = page.paras]
    ELSE out

WithTitle(page, out) ==
    IF page # None /\ page.title_tag # <<>>
    THEN [out EXCEPT !.title_override = page.title_tag[1]]
    ELSE out

\* the canonical link, else og:url
CanonicalOf(page) ==
    IF page = None THEN <<>>
    ELSE IF page.canonical # <<>> THEN page.canonical
    ELSE page.og_url

WithCanonical(page, out) ==
    IF CanonicalOf(page) # <<>>
    THEN [out EXCEPT !.canonical_url = <<normalize_url(CanonicalOf(page)[1])>>]
    ELSE out

NoBest == [dt |-> None, src |-> NoText]

\* the first string that parses, later ones ignored
FirstRecognized(dtm, text, best) ==
    IF best = Raised \/ dtm = Raised THEN Raised
    ELSE IF dtm # None /\ best.dt = None THEN [dt |-> dtm, src |-> text]
    ELSE best

\* the loop over time_texts: best is [dt, src], or Raised once a parse raised
Newest(dtm, text, best) ==
    IF best = Raised \/ dtm = Raised THEN Raised
    ELSE IF dtm # None /\ (best.dt = None \/ TimeGt(dtm, best.dt))
    THEN [dt |-> dtm, src |-> text]
    ELSE best

RECURSIVE TimesLoop(_, _)
TimesLoop(texts, best) ==
    IF texts = <<>> THEN best
    ELSE TimesLoop(Tail(texts), Newest(parse_datetime_text(texts[1], NOW), texts[1], best))

\* the loop over the strings of __NEXT_DATA__, inside try/except: the first
\* string that parses, nothing when a parse raises
RECURSIVE FirstParsed(_)
FirstParsed(bag) ==
    IF bag = <<>> THEN NoBest
    ELSE IF parse_datetime_text(bag[1], NOW) = Raised THEN NoBest
    ELSE IF parse_datetime_text(bag[1], NOW) # None
    THEN [dt |-> parse_datetime_text(bag[1], NOW), src |-> bag[1]]
    ELSE FirstParsed(Tail(bag))

ZennRescue(url, page, best) ==
    IF /\ best # Raised /\ best.dt = None
       /\ page # None /\ norm_host(url.netloc) = Zenn
    THEN FirstParsed(page.next_data)
    ELSE best

Timestamps(url, page) ==
    ZennRescue(url, page, IF page = None THEN NoBest ELSE TimesLoop(page.time_texts, NoBest))

\* out with its timestamp, or Raised when parse_datetime_text raised
WithTimes(out, best) ==
    IF best = Raised THEN Raised
    ELSE [out EXCEPT !.published_dt = best.dt, !.published_raw = best.src]

\* the part of extract_article after the four text stages
Metadata(url, page, out) ==
    WithTimes(WithCanonical(page, WithTitle(page, out)), Timestamps(url, page))

extract_article(url, page, dl) ==
    Metadata(url, page,
        ParagraphStage(page,
            ReadabilityStage(page,
                FetchUrlStage(page, dl, TrafilaturaStage(page, EmptyOut)))))

(***************************************************************************)
(* summarize_article.  A summary is what produced it and from what: the    *)
(* external summarizer is given the first ARTICLE_CHARS_LIMIT characters.  *)
(***************************************************************************)
ARTICLE_CHARS_LIMIT == 9000

local_fallback_summary(title, url, body) ==
    [by |-> "local", title |-> title, url |-> url, chars |-> TextLen(body)]

\* (body or "")[:ARTICLE_CHARS_LIMIT], as the number of characters kept
body_trim(body) == Min(TextLen(body), ARTICLE_CHARS_LIMIT)

summarize_whole_body(title, url, body, configured, call_ok) ==
    IF configured /\ call_ok
    THEN [by |-> "openai", title |-> title, url |-> url, chars |-> TextLen(body)]
    ELSE local_fallback_summary(title, url, body)

\* configured is `client is not None`, call_ok whether the call returns;
\* a call that raises is caught and falls through to the local summary
summarize_article(title, url, body, configured, call_ok) ==
    IF configured /\ call_ok
    THEN [by |-> "openai", title |-> title, url |-> url, chars |-> body_trim(body)]
    ELSE local_fallback_summary(title, url, body)

(***************************************************************************)
(* main: the steps between harvest and report.                             *)
(***************************************************************************)
\* step 3: the link normalised and the title stripped, in every row
PrepareRow(r) == [r EXCEPT !.link = normalize_url(@), !.title = Strip(@)]

PrepareAll(rows) == [i \in DOMAIN rows |-> PrepareRow(rows[i])]

\* the row's list_time_guess first, the article-level timestamp as fallback
ListTimeFirst(a, it) ==
    IF it.list_time_guess # <<>> THEN fromisoformat(it.list_time_guess)
    ELSE a.published_dt

\* the article-level timestamp, else the row's list_time_guess parsed back
ResolvePubDt(a, it) ==
    IF a.published_dt # None THEN a.published_dt
    ELSE IF it.list_time_guess # <<>> THEN fromisoformat(it.list_time_guess)
    ELSE None

CanonicalAlways(uh, ch) == TRUE

\* (uh == ch) or (uh in CROSS_HOST_ALLOW and ch in CROSS_HOST_ALLOW.get(uh, set()))
CanonicalAllowed(uh, ch) ==
    uh = ch \/ (uh \in CrossHostKeys /\ ch \in CROSS_HOST_ALLOW(uh))

FinalUrl(url, a) ==
    IF /\ a.canonical_url # <<>>
       /\ CanonicalAllowed(norm_host(url.netloc), norm_host(a.canonical_url[1].netloc))
    THEN a.canonical_url[1]
    ELSE url

TitleUse(a, title) == Strip(IF a.title_override # <<>> THEN a.title_override ELSE title)

ExcerptChars == 240

\* the dict appended to results
Record(it, a, pub_dt, configured, call_ok) ==
    [title |-> TitleUse(a, it.title),
     url |-> FinalUrl(it.link, a),
     published_at |-> IF pub_dt # None THEN isoformat(pub_dt) ELSE <<>>,
     published_raw |-> IF a.published_raw # NoText THEN a.published_raw
                       ELSE it.list_time_raw,
     source_list |-> it.source_list,
     body_chars |-> TextLen(a.text),
     excerpt |-> Min(TextLen(a.text), ExcerptChars),
     summary |-> summarize_article(TitleUse(a, it.title), FinalUrl(it.link, a),
                                   a.text, configured, call_ok)]

AnyOrder(rows) == TRUE

\* sort_values("published_at", ascending=False): rows in descending order of
\* the text, rows with equal text in any order
SortedDesc(rows) ==
    \A i \in 1..(Len(rows) - 1) : StrGeq(rows[i].published_at, rows[i + 1].published_at)

Orderings(n) == {p \in [1..n -> 1..n] : \A i, j \in 1..n : p[i] = p[j] => i = j}

Reordered(rows, p) == [i \in DOMAIN rows |-> rows[p[i]]]

(***************************************************************************)
(* The variables of the parts a specification does not exercise.           *)
(***************************************************************************)
MainIdle ==
    /\ pc = "idle" /\ todo = <<>> /\ candidates = <<>> /\ results = <<>>
    /\ idx = 0 /\ art = None /\ client = FALSE
    /\ harvested = <<>> /\ accepted = <<>> /\ df = <<>>

UrlIdle == urls = <<>>

LbIdle == lb_d = None /\ lb_ok = <<>>

AnchorIdle == an_base = None /\ an_card = None /\ an_pick = <<>>

ListIdle == ls_url = None /\ ls_resp = None /\ ls_out = <<>>

DedupeIdle == dd_rows = <<>> /\ dd_key = "" /\ dd_out = <<>>

ExtractIdle ==
    /\ ex_url = None /\ ex_page = None /\ ex_dl = None /\ ex_stage = 0 /\ ex_out = None

SummaryIdle == sm_in = None /\ sm_out = <<>>

FeedIdle == fd_url = None /\ fd_resp = None /\ fd_out = <<>>

ScoreIdle == sc_href = None /\ sc_base = None /\ sc_out = <<>>

OrderIdle == od_rows = <<>> /\ od_arts = None /\ od_runs = <<>>

MoreIdle == SummaryIdle /\ FeedIdle /\ ScoreIdle /\ OrderIdle

(***************************************************************************)
(* SpecUrl: normalize_url applied to a URL, then to its own result.        *)
(***************************************************************************)
MaxTailLen == 3

TailAlphabet == {"a", "utm_", "sk", "?", "#", "&", "=", "%3F"}

\* the text after a path starts with "?" or "#", or is empty
Tails ==
    {t \in UNION {[1..n -> TailAlphabet] : n \in 0..MaxTailLen} :
        t = <<>> \/ t[1] \in {"?", "#"}}

ExampleCom == <<"example", "com">>

UrlInit ==
    /\ \E t \in Tails :
          urls = <<[scheme |-> "https", netloc |-> ExampleCom, path |-> <<"a">>,
                    slash |-> FALSE, tail |-> t]>>
    /\ MainIdle /\ MoreIdle /\ LbIdle /\ AnchorIdle /\ ListIdle /\ DedupeIdle /\ ExtractIdle

NormalizeAgain ==
    /\ Len(urls) \in 1..2
    /\ urls' = Append(urls, normalize_url(urls[Len(urls)]))
    /\ UNCHANGED <<mainVars, moreVars, lbVars, anchorVars, listVars, dedupeVars, extractVars>>

UrlNext == NormalizeAgain

SpecUrl == UrlInit /\ [][UrlNext]_vars

\* C7: normalize_url is idempotent: normalising the result of normalize_url
\* changes nothing, for every URL.
C7_Idempotent == Len(urls) = 3 => urls[3] = urls[2]

(***************************************************************************)
(* SpecLookback: within_lookback called on one optional timestamp.         *)
(***************************************************************************)
LbSpan == 3

LbTimes ==
    {[min |-> m, frac |-> f] :
        m \in (THRESHOLD.min - LbSpan)..(THRESHOLD.min + LbSpan), f \in 0..MaxFrac}

LbInit ==
    /\ lb_d \in LbTimes \cup {None}
    /\ lb_ok = <<>>
    /\ MainIdle /\ MoreIdle /\ UrlIdle /\ AnchorIdle /\ ListIdle /\ DedupeIdle /\ ExtractIdle

CallWithinLookback ==
    /\ lb_ok = <<>>
    /\ lb_ok' = <<within_lookback(lb_d)>>
    /\ UNCHANGED <<lb_d, mainVars, moreVars, urlVars, anchorVars, listVars, dedupeVars, extractVars>>

LbNext == CallWithinLookback

SpecLookback == LbInit /\ [][LbNext]_vars

\* an instant as one number of sub-minute units
Ticks(d) == d.min * Pow10(FracWidth) + d.frac

\* C6: within_lookback(ts) is true exactly when ts is present and
\* ts >= NOW - LOOKBACK_HOURS: false for a missing timestamp and for the
\* threshold minus one minute, true for the threshold and for the threshold
\* plus one minute.
C6_LookbackPredicate ==
    lb_ok # <<>> =>
        /\ lb_ok[1] = (/\ lb_d # None
                       /\ Ticks(lb_d) >= Ticks(NOW)
                            - LOOKBACK_HOURS * MinutesPerHour * Pow10(FracWidth))
        /\ (lb_d = None => lb_ok[1] = FALSE)
        /\ (lb_d = MinusMinutes(THRESHOLD, 1) => lb_ok[1] = FALSE)
        /\ (lb_d = THRESHOLD => lb_ok[1] = TRUE)
        /\ (lb_d = PlusMinutes(THRESHOLD, 1) => lb_ok[1] = TRUE)

C6_Witness == lb_ok = <<TRUE>> /\ lb_d = THRESHOLD

(***************************************************************************)
(* SpecAnchor: pick_article_anchor called on one card of one index page.   *)
(***************************************************************************)
MaxAnchors == 2

Url(netloc, path, slash) ==
    [scheme |-> "https", netloc |-> netloc, path |-> path, slash |-> slash, tail |-> <<>>]

\* index pages of TARGET_LIST_PAGES
ListPages ==
    {Url(<<"www">> \o BusinessInsider, <<"category", "business">>, TRUE),
     Url(NikkeiBusiness, <<"latest">>, TRUE),
     Url(Hatena, <<"hotentry", "it">>, FALSE),
     Url(Zenn, <<"topics", "ai">>, FALSE),
     Url(HuggingFace, <<"blog">>, FALSE),
     Url(<<"www">> \o Kdnuggets, <<"tag", "python">>, FALSE),
     Url(TowardsDataScience, <<"latest">>, TRUE)}

PathPool ==
    {[path |-> <<"category", "ai">>, slash |-> TRUE],
     [path |-> <<"category", "post-123">>, slash |-> FALSE],
     [path |-> <<"post-123">>, slash |-> FALSE],
     [path |-> <<"authors", "alice">>, slash |-> FALSE],
     [path |-> <<"blog", "my-post">>, slash |-> FALSE],
     [path |-> <<"alice", "articles", "my-post">>, slash |-> FALSE],
     [path |-> <<"users", "articles", "my-post">>, slash |-> FALSE],
     [path |-> <<"2024", "05", "my-post">>, slash |-> FALSE],
     [path |-> <<"2024", "05", "category", "my-post">>, slash |-> FALSE],
     [path |-> <<"atcl", "my-post">>, slash |-> TRUE],
     [path |-> <<"story-0123456789ab">>, slash |-> FALSE]}

Anchor(href, entry_link, bad, good, permalink) ==
    [href |-> href, entry_link |-> entry_link, bad |-> bad, good |-> good,
     permalink |-> permalink]

\* the anchors a card of the page base may hold: links to the page's own host
\* and to another host, a tracked link, a mailto link, and anchors that carry
\* the entry-link class, a headline class with rel=permalink, an author keyword
AnchorPool(base) ==
    {Anchor(Url(h, p.path, p.slash), FALSE, 0, 0, FALSE) :
        h \in {base.netloc, Medium}, p \in PathPool}
    \cup {Anchor([Url(base.netloc, <<"blog", "my-post">>, FALSE)
                    EXCEPT !.tail = <<"?", "utm_", "=", "a">>], FALSE, 0, 0, FALSE),
          Anchor([Url(<<>>, <<>>, FALSE) EXCEPT !.scheme = "mailto"], FALSE, 0, 0, FALSE),
          Anchor(Url(Medium, <<"category", "ai">>, TRUE), TRUE, 0, 0, FALSE),
          Anchor(Url(Medium, <<"blog", "my-post">>, FALSE), TRUE, 0, 0, FALSE),
          Anchor(Url(base.netloc, <<"blog", "my-post">>, FALSE), FALSE, 0, 1, TRUE),
          Anchor(Url(base.netloc, <<"authors", "alice">>, FALSE), FALSE, 1, 0, FALSE)}

SeqsUpTo(S, n) == UNION {[1..k -> S] : k \in 0..n}

AnchorInit ==
    /\ an_base \in ListPages
    /\ \E anchors \in SeqsUpTo(AnchorPool(an_base), MaxAnchors) :
          an_card = [anchors |-> anchors, title |-> <<"A">>, meta |-> <<>>]
    /\ an_pick = <<>>
    /\ MainIdle /\ MoreIdle /\ UrlIdle /\ LbIdle /\ ListIdle /\ DedupeIdle /\ ExtractIdle

CallPickArticleAnchor ==
    /\ an_pick = <<>>
    /\ an_pick' = <<pick_article_anchor(an_card, an_base)>>
    /\ UNCHANGED <<an_base, an_card, mainVars, moreVars, urlVars, lbVars, listVars, dedupeVars, extractVars>>

AnchorNext == CallPickArticleAnchor

SpecAnchor == AnchorInit /\ [][AnchorNext]_vars

HostExcludes(base) == SITE_RULES(norm_host(base.netloc)).exclude

\* C4: exclude dominates: pick_article_anchor never returns the URL of an
\* anchor whose path matches an exclude pattern of the base host's SiteRule,
\* whatever include patterns or bonuses it also matches.
C4_ExcludeDominates ==
    an_pick # <<>> =>
        \A i \in DOMAIN an_card.anchors :
            LET href == normalize_url(an_card.anchors[i].href)
            IN  AnyMatch(HostExcludes(an_base), href) => an_pick[1] # href

\* the slug grammar of a strict-slug host
SlugGrammar(host, u) ==
    IF host = Zenn THEN ZENN_ARTICLE_RE(u) \/ ZENN_USERLESS_RE(u) ELSE KDN_ARTICLE_RE(u)

\* C20: on zenn.dev and kdnuggets.com pick_article_anchor returns only the
\* URL of an anchor whose path matches the host's slug grammar, and returns
\* none for a card in which no anchor matches: the generic scoring is never
\* reached for these hosts.
C20_StrictSlug ==
    (an_pick # <<>> /\ norm_host(an_base.netloc) \in {Zenn, Kdnuggets}) =>
        \/ /\ an_pick[1] = None
           /\ \A k \in DOMAIN an_card.anchors :
                 ~SlugGrammar(norm_host(an_base.netloc),
                              normalize_url(an_card.anchors[k].href))
        \/ /\ an_pick[1] # None
           /\ SlugGrammar(norm_host(an_base.netloc), an_pick[1])
           /\ \E k \in DOMAIN an_card.anchors :
                 an_pick[1] = normalize_url(an_card.anchors[k].href)

\* a card whose only anchor the generic scoring would have returned
C20_Witness ==
    /\ an_pick = <<None>>
    /\ norm_host(an_base.netloc) = Kdnuggets
    /\ Len(an_card.anchors) = 1
    /\ GenericPick(an_card.anchors, an_base.netloc) # None

(***************************************************************************)
(* SpecList: collect_from_list called on one index page.                   *)
(***************************************************************************)
MaxCards == 2

\* the time hints of a card: none, unrecognised text, one at the threshold,
\* an old one before a recent one, two in the window, one too far back to
\* subtract from NOW
MetaPool ==
    {<<>>,
     <<JunkHint>>,
     <<AbsHint(THRESHOLD)>>,
     <<AbsHint(MinusMinutes(THRESHOLD, 1)), RelHint(10)>>,
     <<AbsHint([min |-> THRESHOLD.min + 5, frac |-> 0]), RelHint(10), JunkHint>>,
     <<RelHint(NOW.min + 1)>>}

ListAnchorPool(base) ==
    {Anchor(Url(base.netloc, p.path, p.slash), FALSE, 0, 0, FALSE) :
        p \in {[path |-> <<"blog", "my-post">>, slash |-> FALSE],
               [path |-> <<"category", "ai">>, slash |-> TRUE],
               [path |-> <<"category", "post-123">>, slash |-> FALSE],
               [path |-> <<"users", "articles", "my-post">>, slash |-> FALSE],
               [path |-> <<"2024", "05", "category", "my-post">>, slash |-> FALSE]}}
    \cup {Anchor(Url(Medium, <<"blog", "my-post">>, FALSE), FALSE, 0, 0, FALSE),
          Anchor(Url(Medium, <<"category", "ai">>, TRUE), TRUE, 0, 0, FALSE)}

ListCardPool(base) ==
    {[anchors |-> <<a>>, title |-> <<"A">>, meta |-> m] :
        a \in ListAnchorPool(base), m \in MetaPool}
    \cup {[anchors |-> <<>>, title |-> <<"A">>, meta |-> <<>>],
          [anchors |-> <<Anchor(Url(base.netloc, <<"blog", "my-post">>, FALSE),
                                FALSE, 0, 0, FALSE)>>,
           title |-> <<" ", "a", "!">>, meta |-> <<AbsHint(THRESHOLD)>>]}

\* the parent elements of a page's anchors, met only by the last-resort pass
ParentPool(base) ==
    {<<>>,
     <<[anchors |-> <<Anchor(Url(base.netloc, <<"blog", "my-post">>, FALSE),
                             FALSE, 0, 0, FALSE)>>,
        title |-> <<"b">>, meta |-> <<RelHint(10)>>]>>,
     <<[anchors |-> <<Anchor(Url(base.netloc, <<"category", "ai">>, TRUE),
                             FALSE, 0, 0, FALSE)>>,
        title |-> <<"b">>, meta |-> <<RelHint(10)>>]>>}

ListInit ==
    /\ ls_url \in ListPages
    /\ \/ ls_resp = None
       \/ \E cards \in SeqsUpTo(ListCardPool(ls_url), MaxCards),
             parents \in ParentPool(ls_url) :
             ls_resp = [cards |-> cards, parents |-> parents]
    /\ ls_out = <<>>
    /\ MainIdle /\ MoreIdle /\ UrlIdle /\ LbIdle /\ AnchorIdle /\ DedupeIdle /\ ExtractIdle

CallCollectFromList ==
    /\ ls_out = <<>>
    /\ ls_out' = <<collect_from_list(ls_url, ls_resp)>>
    /\ UNCHANGED <<ls_url, ls_resp, mainVars, moreVars, urlVars, lbVars, anchorVars, dedupeVars, extractVars>>

ListNext == CallCollectFromList

SpecList == ListInit /\ [][ListNext]_vars

OnlyAnchorCommonExcluded(card) ==
    /\ Len(card.anchors) = 1
    /\ AnyMatch(COMMON_EXCLUDES, normalize_url(card.anchors[1].href))

\* C5: on an index page of any host, a card whose only anchor points to a
\* path matching a common-exclude pattern produces no Candidate: a page all
\* of whose cards are such cards yields zero candidates.
C5_CommonExcludeRejected ==
    (/\ ls_out # <<>>
     /\ ls_resp # None
     /\ \A i \in DOMAIN ls_resp.cards : OnlyAnchorCommonExcluded(ls_resp.cards[i])
     /\ \A i \in DOMAIN ls_resp.parents : OnlyAnchorCommonExcluded(ls_resp.parents[i]))
        => ls_out[1].items = <<>>

\* the in-window instants among what a card's time hints parse to
InWindowTimes(card) ==
    {t \in {parse_datetime_text(card.meta[k], NOW) : k \in DOMAIN card.meta} :
        t # None /\ t # Raised /\ Ticks(t) >= Ticks(THRESHOLD)}

\* the card accounts for the row: its listTimeGuess is the card's most
\* recent in-window hint, or is empty on a host of ALLOW_NO_LIST_TIME
Accounts(card, row, host) ==
    /\ Strip(card.title) = row.title
    /\ \/ \E t \in InWindowTimes(card) :
             /\ row.list_time_guess = isoformat(t)
             /\ \A u \in InWindowTimes(card) : Ticks(u) <= Ticks(t)
       \/ /\ InWindowTimes(card) = {}
          /\ row.list_time_guess = <<>>
          /\ host \in ALLOW_NO_LIST_TIME

\* C16: an index-page card is emitted as a Candidate only if one of its
\* time hints parses to an in-window timestamp or the page's normalized
\* host is in ALLOW_NO_LIST_TIME; the Candidate's listTimeGuess is empty or
\* the most recent in-window hint, never an out-of-window value.
C16_ListTimeHints ==
    (ls_out # <<>> /\ ls_resp # None) =>
        \A i \in DOMAIN ls_out[1].items :
            /\ ls_out[1].items[i].list_time_guess # <<>> =>
                  Ticks(fromisoformat(ls_out[1].items[i].list_time_guess))
                     >= Ticks(THRESHOLD)
            /\ \/ \E c \in DOMAIN ls_resp.cards :
                     Accounts(ls_resp.cards[c], ls_out[1].items[i],
                              norm_host(ls_url.netloc))
               \/ \E c \in DOMAIN ls_resp.parents :
                     Accounts(ls_resp.parents[c], ls_out[1].items[i],
                              norm_host(ls_url.netloc))

\* a card with an in-window hint before a more recent one, on a host that
\* is not in ALLOW_NO_LIST_TIME, emitted with the more recent one
C16_Witness ==
    /\ ls_out # <<>>
    /\ ls_resp # None
    /\ norm_host(ls_url.netloc) \notin ALLOW_NO_LIST_TIME
    /\ Len(ls_resp.cards) = 1
    /\ ls_resp.cards[1].meta
          = <<AbsHint([min |-> THRESHOLD.min + 5, frac |-> 0]), RelHint(10), JunkHint>>
    /\ Len(ls_out[1].items) = 1
    /\ ls_out[1].items[1].list_time_guess = isoformat(MinusMinutes(NOW, 10))

\* C21: every Candidate harvested from an index page has a link whose
\* normalized host is the page's own normalized host or a member of the
\* page host's cross-host allow set, except on b.hatena.ne.jp, where links
\* to any host are accepted; a card whose chosen link is on another host
\* yields no candidate.
C21_LinkHostAllowed ==
    ls_out # <<>> =>
        \A i \in DOMAIN ls_out[1].items :
            \/ norm_host(ls_out[1].items[i].link.netloc) = norm_host(ls_url.netloc)
            \/ norm_host(ls_out[1].items[i].link.netloc)
                  \in CROSS_HOST_ALLOW(norm_host(ls_url.netloc))
            \/ norm_host(ls_url.netloc) = Hatena

\* a page of a host that needs no list time, whose only card has its
\* chosen link on medium.com, gave no candidate
C21_Witness ==
    /\ ls_out # <<>>
    /\ ls_resp # None
    /\ norm_host(ls_url.netloc) = HuggingFace
    /\ Len(ls_resp.cards) = 1
    /\ ls_resp.parents = <<>>
    /\ pick_article_anchor(ls_resp.cards[1], ls_url) # None
    /\ norm_host(pick_article_anchor(ls_resp.cards[1], ls_url).netloc) = Medium
    /\ ls_out[1].items = <<>>
    /\ ~ls_out[1].raised

(***************************************************************************)
(* SpecDedupe: dedupe_by_title_keep_latest called on a list of rows.       *)
(***************************************************************************)
MaxRows == 2

TitleA == <<"A">>

\* a title with the dedup key of TitleA
TitleALoud == <<" ", "a", "!">>

TitleB == <<"B">>

DedupeTitles == {TitleA, TitleALoud, TitleB, <<" ">>}

\* two instants of a summer-time period, one after it, two in the window
DedupeTimes ==
    {[min |-> DstEnd - 2, frac |-> 0],
     [min |-> DstEnd - 1, frac |-> 0],
     [min |-> DstEnd + 5, frac |-> 0],
     THRESHOLD,
     [min |-> THRESHOLD.min, frac |-> 0]}

TimeTexts == {<<>>} \cup {isoformat(t) : t \in DedupeTimes}

\* a row with its position in the input as tag
Row(title, tag, time_key, text) ==
    ("title" :> title) @@ ("tag" :> tag) @@ (time_key :> text)

TimeKeys == {"list_time_guess", "published_at"}

DedupeInit ==
    /\ dd_key \in TimeKeys
    /\ \E n \in 0..MaxRows :
          \E titles \in [1..n -> DedupeTitles], texts \in [1..n -> TimeTexts] :
              dd_rows = [i \in 1..n |-> Row(titles[i], i, dd_key, texts[i])]
    /\ dd_out = <<>>
    /\ MainIdle /\ MoreIdle /\ UrlIdle /\ LbIdle /\ AnchorIdle /\ ListIdle /\ ExtractIdle

CallDedupe ==
    /\ dd_out = <<>>
    /\ dd_out' = <<dedupe_by_title_keep_latest(dd_rows, dd_key)>>
    /\ UNCHANGED <<dd_rows, dd_key, mainVars, moreVars, urlVars, lbVars, anchorVars, listVars,
                   extractVars>>

DedupeNext == CallDedupe

SpecDedupe == DedupeInit /\ [][DedupeNext]_vars

\* the instant a row's time text stands for
RowTime(r) == fromisoformat(r[dd_key])

\* C3: dedupe applied to two rows with identical normalized titles and
\* present timestamps T1 < T2 in the chosen time field yields exactly one
\* row, the one with timestamp T2, whichever of the two comes first.
C3_KeepsLatest ==
    (/\ dd_out # <<>>
     /\ Len(dd_rows) = 2
     /\ Strip(dd_rows[1].title) # <<>>
     /\ normalize_title(dd_rows[1].title) = normalize_title(dd_rows[2].title)
     /\ dd_rows[1][dd_key] # <<>>
     /\ dd_rows[2][dd_key] # <<>>
     /\ RowTime(dd_rows[1]) # RowTime(dd_rows[2]))
        => dd_out[1] = <<IF TimeGt(RowTime(dd_rows[1]), RowTime(dd_rows[2]))
                         THEN dd_rows[1] ELSE dd_rows[2]>>

\* two rows that dedupe treats as the same article
SameKeyPair ==
    /\ dd_out # <<>>
    /\ Len(dd_rows) = 2
    /\ Strip(dd_rows[1].title) # <<>>
    /\ Strip(dd_rows[2].title) # <<>>
    /\ normalize_title(dd_rows[1].title) = normalize_title(dd_rows[2].title)

\* C13: of two rows with the same normalized title, the one and only row
\* with a present value in the time field is kept, whichever came first;
\* if neither has a value, the first-seen row is kept.
C13_TieBreak ==
    SameKeyPair =>
        /\ (dd_rows[1][dd_key] # <<>> /\ dd_rows[2][dd_key] = <<>>) => dd_out[1] = <<dd_rows[1]>>
        /\ (dd_rows[1][dd_key] = <<>> /\ dd_rows[2][dd_key] # <<>>) => dd_out[1] = <<dd_rows[2]>>
        /\ (dd_rows[1][dd_key] = <<>> /\ dd_rows[2][dd_key] = <<>>) => dd_out[1] = <<dd_rows[1]>>

C13_Witness ==
    /\ SameKeyPair
    /\ dd_rows[1].title # dd_rows[2].title
    /\ dd_rows[1][dd_key] = <<>>
    /\ dd_rows[2][dd_key] # <<>>
    /\ dd_out[1] = <<dd_rows[2]>>

(***************************************************************************)
(* SpecExtract: extract_article on one URL, stage by stage.                *)
(***************************************************************************)
Txt(lead, core, trail) == [lead |-> lead, core |-> core, trail |-> trail]

ArticleUrls ==
    {Url(Zenn, <<"alice", "articles", "my-post">>, FALSE),
     Url(TowardsDataScience, <<"story-0123456789ab">>, FALSE)}

MediumStory == Url(Medium, <<"story-0123456789ab">>, FALSE)

ExampleStory == Url(ExampleCom, <<"blog", "my-post">>, FALSE)

TrafiPool == {EmptyText, Txt(0, 150, 0), Txt(5, 195, 0), Txt(0, 300, 0)}

ReadabPool ==
    {None,
     [text |-> Txt(0, 100, 0), title |-> TitleA],
     [text |-> Txt(0, 250, 0), title |-> <<>>]}

ParasPool == {EmptyText, Txt(0, 120, 0), Txt(0, 260, 0)}

DlPool == {EmptyText, Txt(3, 0, 0), Txt(2, 50, 2)}

\* [canonical, og_url]
LinkPool ==
    {<<<<>>, <<>>>>,
     <<<<[MediumStory EXCEPT !.tail = <<"?", "utm_", "=", "a">>]>>, <<ExampleStory>>>>,
     <<<<>>, <<ExampleStory>>>>}

RecentTime == MinusMinutes(NOW, 5)

OldTime == MinusMinutes(THRESHOLD, 1)

TimeTextsPool ==
    {<<>>,
     <<AbsHint(OldTime), JunkHint, AbsHint(RecentTime), AbsHint(THRESHOLD)>>,
     <<AbsHint(RecentTime), AbsHint(OldTime)>>,
     <<JunkHint>>,
     <<RelHint(NOW.min + 1)>>}

NextDataPool == {<<JunkHint, AbsHint(OldTime), AbsHint(RecentTime)>>, <<RelHint(NOW.min + 1)>>}

ExtractInit ==
    /\ ex_url \in ArticleUrls
    /\ \/ ex_page = None
       \/ \E trafi \in TrafiPool, readab \in ReadabPool, paras \in ParasPool,
             title_tag \in {<<>>, <<TitleB>>}, links \in LinkPool,
             time_texts \in TimeTextsPool, next_data \in NextDataPool :
             ex_page = [trafi |-> trafi, readab |-> readab, paras |-> paras,
                        title_tag |-> title_tag, canonical |-> links[1],
                        og_url |-> links[2], time_texts |-> time_texts,
                        next_data |-> next_data]
    /\ ex_dl \in DlPool
    /\ ex_stage = 0
    /\ ex_out = EmptyOut
    /\ MainIdle /\ MoreIdle /\ UrlIdle /\ LbIdle /\ AnchorIdle /\ ListIdle /\ DedupeIdle

ExtractFrame ==
    UNCHANGED <<ex_url, ex_page, ex_dl, mainVars, moreVars, urlVars, lbVars, anchorVars, listVars,
                dedupeVars>>

RunTrafilatura ==
    /\ ex_stage = 0
    /\ ex_out' = TrafilaturaStage(ex_page, ex_out)
    /\ ex_stage' = 1
    /\ ExtractFrame

RunFetchUrl ==
    /\ ex_stage = 1
    /\ ex_out' = FetchUrlStage(ex_page, ex_dl, ex_out)
    /\ ex_stage' = 2
    /\ ExtractFrame

RunReadability ==
    /\ ex_stage = 2
    /\ ex_out' = ReadabilityStage(ex_page, ex_out)
    /\ ex_stage' = 3
    /\ ExtractFrame

RunParagraphs ==
    /\ ex_stage = 3
    /\ ex_out' = ParagraphStage(ex_page, ex_out)
    /\ ex_stage' = 4
    /\ ExtractFrame

ReadMetadata ==
    /\ ex_stage = 4
    /\ ex_out' = Metadata(ex_url, ex_page, ex_out)
    /\ ex_stage' = 5
    /\ ExtractFrame

ExtractNext ==
    RunTrafilatura \/ RunFetchUrl \/ RunReadability \/ RunParagraphs \/ ReadMetadata

SpecExtract == ExtractInit /\ [][ExtractNext]_vars

\* C8: from one fallback stage of extract_article to the next the length of
\* the running best text never decreases, and a stage replaces the text only
\* with a strictly longer one, for a successful and for a failed fetch.
C8_TextMonotone ==
    [][ex_stage' \in 1..4 =>
          /\ TextLen(ex_out'.text) >= TextLen(ex_out.text)
          /\ (ex_out'.text # ex_out.text =>
                TextLen(ex_out'.text) > TextLen(ex_out.text))]_vars

C8_Witness ==
    /\ ex_stage = 4
    /\ ex_page # None
    /\ TextLen(ex_page.trafi) >= MinBodyChars
    /\ TextLen(ex_out.text) > TextLen(StripText(ex_page.trafi))

\* the instants that parse from the time strings collected from the page
ParsedTimes(texts) ==
    {t \in {parse_datetime_text(texts[k], NOW) : k \in DOMAIN texts} :
        t # None /\ t # Raised}

\* C19: the article-level publish timestamp returned by extract_article is
\* the latest of all timestamps that parse from the collected metadata
\* strings, in whatever order they were collected, and it is absent only if
\* none of them parses.
C19_LatestTimestamp ==
    (ex_stage = 5 /\ ex_page # None /\ ex_out # Raised) =>
        /\ ParsedTimes(ex_page.time_texts) # {} =>
              /\ ex_out.published_dt \in ParsedTimes(ex_page.time_texts)
              /\ \A u \in ParsedTimes(ex_page.time_texts) :
                    Ticks(u) <= Ticks(ex_out.published_dt)
        /\ ex_out.published_dt = None => ParsedTimes(ex_page.time_texts) = {}

C19_Witness ==
    /\ ex_stage = 5
    /\ ex_page # None
    /\ ex_page.time_texts
          = <<AbsHint(OldTime), JunkHint, AbsHint(RecentTime), AbsHint(THRESHOLD)>>
    /\ ex_out # Raised
    /\ ex_out.published_dt = RecentTime
    /\ ex_out.published_raw = AbsHint(RecentTime)

(***************************************************************************)
(* Spec: one run of main, over two index pages and one feed.               *)
(***************************************************************************)
TARGET_LIST_PAGES ==
    <<Url(TowardsDataScience, <<"latest">>, TRUE), Url(Hatena, <<"hotentry", "it">>, FALSE)>>

FEED_URLS == <<Url(Zenn, <<"topics", "ai", "feed">>, FALSE)>>

Plain(href) == Anchor(href, FALSE, 0, 0, FALSE)

EntryLink(href) == Anchor(href, TRUE, 0, 0, FALSE)

OneCard(anchor, title, meta) ==
    [cards |-> <<[anchors |-> <<anchor>>, title |-> title, meta |-> meta]>>,
     parents |-> <<>>]

Overflowing == RelHint(NOW.min + 1)

\* the pages an index page may answer with
ListResponses(url) ==
    IF norm_host(url.netloc) = TowardsDataScience
    THEN {OneCard(Plain(Url(TowardsDataScience, <<"story-0123456789ab">>, FALSE)),
                  TitleA, <<>>),
          OneCard(Plain(Url(Medium, <<"blog", "my-post">>, FALSE)),
                  TitleALoud, <<AbsHint(MinusMinutes(NOW, 10))>>),
          OneCard(Plain(Url(TowardsDataScience, <<"story-0123456789ab">>, FALSE)),
                  TitleB, <<Overflowing>>)}
    ELSE {OneCard(EntryLink(ExampleStory), TitleB, <<AbsHint(THRESHOLD)>>),
          OneCard(EntryLink([Url(<<>>, <<>>, FALSE) EXCEPT !.scheme = "mailto"]),
                  TitleA, <<RelHint(10)>>)}

Entry(title, link, published_raw) ==
    [title |-> title, link |-> link, published_raw |-> published_raw]

Feed(wellformed, entries) ==
    [empty |-> FALSE, wellformed |-> wellformed, entries |-> entries]

ZennPost == Url(Zenn, <<"alice", "articles", "my-post">>, FALSE)

\* what the feed may answer with: an empty body, a well-formed feed with an
\* old item, a malformed feed with an item without link, one with a link
\* that is not http and a recent one, a feed with a date too far back
FeedResponses ==
    {[empty |-> TRUE, wellformed |-> FALSE, entries |-> <<>>],
     Feed(TRUE, <<Entry(TitleA, <<ZennPost>>, AbsHint(OldTime))>>),
     Feed(FALSE, <<Entry(TitleB, <<>>, NoText),
                   Entry(TitleB, <<[ZennPost EXCEPT !.scheme = "ftp"]>>, NoText),
                   Entry(TitleALoud, <<ZennPost>>, AbsHint(RecentTime))>>),
     Feed(TRUE, <<Entry(TitleB, <<ZennPost>>, Overflowing)>>)}

ArticlePage(trafi, readab, paras, links, time_texts) ==
    [trafi |-> trafi, readab |-> readab, paras |-> paras, title_tag |-> <<>>,
     canonical |-> links[1], og_url |-> links[2], time_texts |-> time_texts,
     next_data |-> <<>>]

\* what fetching an article may give: nothing at all, only the second
\* download, a long text with a canonical link on medium.com and a recent
\* date, a short page with a readability title, an og:url on another host
\* and a date at the threshold, a page with an old date, a page with a date
\* too far back
ArticleFetches ==
    {[page |-> None, dl |-> EmptyText],
     [page |-> None, dl |-> Txt(2, 50, 2)],
     [page |-> ArticlePage(Txt(0, 300, 0), None, EmptyText, <<<<MediumStory>>, <<>>>>,
                           <<AbsHint(RecentTime)>>),
      dl |-> EmptyText],
     [page |-> ArticlePage(EmptyText, [text |-> Txt(0, 100, 0), title |-> TitleA],
                           Txt(0, 120, 0), <<<<>>, <<ExampleStory>>>>,
                           <<AbsHint(THRESHOLD)>>),
      dl |-> EmptyText],
     [page |-> ArticlePage(Txt(0, 300, 0), None, EmptyText, <<<<>>, <<>>>>,
                           <<AbsHint(OldTime)>>),
      dl |-> EmptyText],
     [page |-> ArticlePage(Txt(0, 300, 0), None, EmptyText, <<<<>>, <<>>>>,
                           <<Overflowing>>),
      dl |-> EmptyText]}

Init ==
    /\ pc = "lists"
    /\ todo = TARGET_LIST_PAGES
    /\ candidates = <<>>
    /\ results = <<>>
    /\ idx = 0
    /\ art = None
    /\ client \in BOOLEAN
    /\ harvested = <<>>
    /\ accepted = <<>>
    /\ df = <<>>
    /\ UrlIdle /\ LbIdle /\ AnchorIdle /\ ListIdle /\ DedupeIdle /\ ExtractIdle
    /\ MoreIdle

notMain == <<urlVars, lbVars, anchorVars, listVars, dedupeVars, extractVars, moreVars>>

\* candidates.extend(rows) for the harvest h of the source todo[1], or the
\* exception raised while harvesting it, which nothing catches
Extend(h, next_pc, next_todo) ==
    IF h.raised
    THEN pc' = "aborted" /\ UNCHANGED <<todo, candidates>>
    ELSE /\ candidates' = candidates \o h.items
         /\ todo' = IF Len(todo) > 1 THEN Tail(todo) ELSE next_todo
         /\ pc' = IF Len(todo) > 1 THEN pc ELSE next_pc

\* step 1, one index page: req fails (None) or answers with a page
HarvestList ==
    /\ pc = "lists"
    /\ \E resp \in {None} \cup ListResponses(todo[1]) :
          Extend(collect_from_list(todo[1], resp), "feeds", FEED_URLS)
    /\ UNCHANGED <<results, idx, art, client, harvested, accepted, df, notMain>>

\* step 2, one feed
HarvestFeed ==
    /\ pc = "feeds"
    /\ \E resp \in {None} \cup FeedResponses :
          Extend(collect_from_feed(todo[1], resp), "dedupe", <<>>)
    /\ UNCHANGED <<results, idx, art, client, harvested, accepted, df, notMain>>

\* step 3
DedupeCandidates ==
    /\ pc = "dedupe"
    /\ harvested' = candidates
    /\ candidates' = dedupe_by_title_keep_latest(PrepareAll(candidates), "list_time_guess")
    /\ idx' = 1
    /\ pc' = "articles"
    /\ UNCHANGED <<todo, results, art, client, accepted, df, notMain>>

\* step 4, a candidate whose link does not start with "http"
SkipCandidate ==
    /\ pc = "articles"
    /\ idx <= Len(candidates)
    /\ art = None
    /\ ~IsHttp(candidates[idx].link)
    /\ idx' = idx + 1
    /\ UNCHANGED <<pc, todo, candidates, results, art, client, harvested, accepted, df,
                   notMain>>

\* step 4, extract_article: its result, or the exception it lets through
ExtractArticle ==
    /\ pc = "articles"
    /\ idx <= Len(candidates)
    /\ art = None
    /\ IsHttp(candidates[idx].link)
    /\ \E f \in ArticleFetches :
          art' = extract_article(candidates[idx].link, f.page, f.dl)
    /\ pc' = IF art' = Raised THEN "aborted" ELSE pc
    /\ UNCHANGED <<todo, candidates, results, idx, client, harvested, accepted, df,
                   notMain>>

\* the rest of the loop body: the lookback test, then the record
Accept(it, a, pub_dt, call_ok) ==
    results' = IF within_lookback(pub_dt)
               THEN Append(results, Record(it, a, pub_dt, client, call_ok))
               ELSE results

Assemble ==
    /\ pc = "articles"
    /\ art # None
    /\ \E call_ok \in BOOLEAN :
          Accept(candidates[idx], art, ResolvePubDt(art, candidates[idx]), call_ok)
    /\ idx' = idx + 1
    /\ art' = None
    /\ UNCHANGED <<pc, todo, candidates, client, harvested, accepted, df, notMain>>

\* step 5
DedupeResults ==
    /\ pc = "articles"
    /\ idx > Len(candidates)
    /\ accepted' = results
    /\ results' = dedupe_by_title_keep_latest(results, "published_at")
    /\ pc' = "report"
    /\ UNCHANGED <<todo, candidates, idx, art, client, harvested, df, notMain>>

\* step 6: the frame sorted, the report written
WriteReport ==
    /\ pc = "report"
    /\ \E p \in Orderings(Len(results)) :
          /\ SortedDesc(Reordered(results, p))
          /\ df' = <<Reordered(results, p)>>
    /\ pc' = "done"
    /\ UNCHANGED <<todo, candidates, results, idx, art, client, harvested, accepted,
                   notMain>>

Next ==
    \/ HarvestList
    \/ HarvestFeed
    \/ DedupeCandidates
    \/ SkipCandidate
    \/ ExtractArticle
    \/ Assemble
    \/ DedupeResults
    \/ WriteReport

Spec == Init /\ [][Next]_vars

UniqueKeys(rows) ==
    \A i, j \in DOMAIN rows :
        i # j => normalize_title(rows[i].title) # normalize_title(rows[j].title)

\* C1: after the candidate-stage pass of dedupe_by_title_keep_latest no two
\* surviving candidates have the same normalize_title(title), and after the
\* result-stage pass no two records of the final result have.
C1_DedupKeyUnique ==
    /\ pc \in {"articles", "report", "done"} => UniqueKeys(candidates)
    /\ pc \in {"report", "done"} => UniqueKeys(results)
    /\ df # <<>> => UniqueKeys(df[1])

C1_Witness ==
    /\ pc = "done"
    /\ Len(harvested) > Len(candidates)
    /\ Len(accepted) > Len(results)
    /\ results # <<>>

\* C2: every record in the results of main has a present publishedAt with
\* publishedAt >= NOW - LOOKBACK_HOURS; no record with a missing or an
\* older publish time is ever in the results.
C2_ResultsWithinLookback ==
    \A i \in DOMAIN results :
        /\ results[i].published_at # <<>>
        /\ fromisoformat(results[i].published_at) # None
        /\ Ticks(fromisoformat(results[i].published_at))
              >= Ticks(NOW) - LOOKBACK_HOURS * MinutesPerHour * Pow10(FracWidth)

C2_Witness ==
    /\ pc = "done"
    /\ \E i \in DOMAIN results :
          /\ results[i].published_at = isoformat(THRESHOLD)
          /\ results[i].published_raw = AbsHint(THRESHOLD)
          /\ results[i].body_chars = 0

\* C9: the url of a record appended to the results is the candidate's own
\* link or the extracted canonical URL, and it is the canonical URL only if
\* the canonical's normalized host equals the link's normalized host or the
\* two hosts form a cross-host allow pair.
C9_CanonicalPolicy ==
    [][(pc = "articles" /\ Len(results') = Len(results) + 1) =>
          /\ \/ results'[Len(results')].url = candidates[idx].link
             \/ /\ art.canonical_url # <<>>
                /\ results'[Len(results')].url = art.canonical_url[1]
          /\ results'[Len(results')].url # candidates[idx].link =>
                \/ norm_host(results'[Len(results')].url.netloc)
                      = norm_host(candidates[idx].link.netloc)
                \/ /\ norm_host(candidates[idx].link.netloc) = TowardsDataScience
                   /\ norm_host(results'[Len(results')].url.netloc)
                         \in {TowardsDataScience, Medium}]_vars

C9_Witness ==
    /\ pc = "articles"
    /\ idx = 2
    /\ art = None
    /\ Len(results) = 1
    /\ norm_host(candidates[1].link.netloc) = TowardsDataScience
    /\ results[1].url = MediumStory

\* C10: the run always completes: whatever fetches, parses and summarizer
\* calls fail, main is never ended by an exception before the report.
C10_RunCompletes == pc # "aborted"

\* the instant a record's published_at text stands for
PublishedTicks(r) == Ticks(fromisoformat(r.published_at))

\* C12: the result-stage deduplication and the sort run only after the
\* article loop has gone through every surviving candidate, and the frame
\* handed to the report is in descending order of publishedAt: no record
\* precedes a record with a later publishedAt.
C12_SortedAfterAll ==
    /\ pc \in {"report", "done"} => (idx > Len(candidates) /\ art = None)
    /\ df # <<>> =>
          /\ pc = "done"
          /\ \A i, j \in DOMAIN df[1] :
                i < j => PublishedTicks(df[1][i]) >= PublishedTicks(df[1][j])

C12_Witness ==
    /\ pc = "done"
    /\ Len(results) >= 2
    /\ \E i, j \in DOMAIN results :
          i < j /\ PublishedTicks(results[i]) < PublishedTicks(results[j])
    /\ df[1] # results

\* the article loop has just finished the candidate it, with or without a record
Assembled == pc = "articles" /\ art # None /\ idx' = idx + 1

Appended == Len(results') = Len(results) + 1

\* C14: the publishedAt of a candidate is the article-level timestamp when
\* the extractor found one and the candidate's listTimeGuess only when it
\* found none; the lookback predicate is applied to that value: a record is
\* appended exactly when it holds, so an article-level timestamp outside
\* the window skips the candidate whatever its listTimeGuess, and a
\* candidate with neither timestamp is skipped.
C14_PublishedAtChoice ==
    [][Assembled =>
          /\ art.published_dt # None =>
                /\ Appended <=> TimeGeq(art.published_dt, THRESHOLD)
                /\ Appended => results'[Len(results')].published_at
                                  = isoformat(art.published_dt)
          /\ (art.published_dt = None /\ candidates[idx].list_time_guess # <<>>) =>
                /\ Appended <=> TimeGeq(fromisoformat(candidates[idx].list_time_guess),
                                         THRESHOLD)
                /\ Appended => results'[Len(results')].published_at
                                  = candidates[idx].list_time_guess
          /\ (art.published_dt = None /\ candidates[idx].list_time_guess = <<>>) =>
                ~Appended
          /\ ~Appended => results' = results]_vars

\* the first candidate had a listTimeGuess inside the window and was
\* fetched, and left no record
C14_Witness ==
    /\ pc = "articles"
    /\ idx = 2
    /\ art = None
    /\ results = <<>>
    /\ IsHttp(candidates[1].link)
    /\ candidates[1].list_time_guess # <<>>
    /\ TimeGeq(fromisoformat(candidates[1].list_time_guess), THRESHOLD)

(***************************************************************************)
(* SpecSummary: summarize_article called once, with and without a client,  *)
(* the client's call returning or raising, on bodies around the limit.     *)
(***************************************************************************)
SummaryBodies ==
    {EmptyText, Txt(2, 300, 1), Txt(0, ARTICLE_CHARS_LIMIT - 1, 0),
     Txt(0, ARTICLE_CHARS_LIMIT, 0), Txt(0, ARTICLE_CHARS_LIMIT, 1),
     Txt(3, 2 * ARTICLE_CHARS_LIMIT, 0)}

SummaryInit ==
    /\ sm_in \in [title : {TitleA, TitleALoud, <<>>}, url : {MediumStory, ExampleStory},
                  body : SummaryBodies, configured : BOOLEAN, call_ok : BOOLEAN]
    /\ sm_out = <<>>
    /\ MainIdle /\ UrlIdle /\ LbIdle /\ AnchorIdle /\ ListIdle /\ DedupeIdle /\ ExtractIdle
    /\ FeedIdle /\ ScoreIdle /\ OrderIdle

CallSummarizeArticle ==
    /\ sm_out = <<>>
    /\ sm_out' = <<summarize_article(sm_in.title, sm_in.url, sm_in.body,
                                     sm_in.configured, sm_in.call_ok)>>
    /\ UNCHANGED <<sm_in, mainVars, urlVars, lbVars, anchorVars, listVars, dedupeVars,
                   extractVars, feedVars, scoreVars, orderVars>>

SummaryNext == CallSummarizeArticle

SpecSummary == SummaryInit /\ [][SummaryNext]_vars

\* C11: summarize_article always returns a summary; without a configured
\* client, or when the client's call fails, it is the local fallback summary
\* of the same title, url and body; the external summarizer is given at most
\* the first ARTICLE_CHARS_LIMIT characters of the body.
C11_SummaryFallback ==
    sm_out # <<>> =>
        /\ sm_out[1].by \in {"openai", "local"}
        /\ (~sm_in.configured \/ ~sm_in.call_ok) =>
              sm_out[1] = local_fallback_summary(sm_in.title, sm_in.url, sm_in.body)
        /\ sm_out[1].by = "openai" =>
              /\ sm_in.configured /\ sm_in.call_ok
              /\ sm_out[1].chars <= ARTICLE_CHARS_LIMIT
              /\ sm_out[1].chars <= TextLen(sm_in.body)

C11_Witness ==
    /\ sm_out # <<>>
    /\ sm_in.configured /\ sm_in.call_ok
    /\ TextLen(sm_in.body) > ARTICLE_CHARS_LIMIT
    /\ sm_out[1].by = "openai"
    /\ sm_out[1].chars = ARTICLE_CHARS_LIMIT

(***************************************************************************)
(* SpecFeed: collect_from_feed on one feed of FEED_URLS: openai.com and    *)
(* zenn.dev, which are in ALLOW_NO_LIST_TIME, and qiita.com, which is not. *)
(***************************************************************************)
MaxEntries == 2

FeedPages ==
    {Url(OpenAI, <<"news", "rss.xml">>, FALSE),
     Url(Zenn, <<"topics", "ai", "feed">>, FALSE),
     Url(Qiita, <<"tags", "ai", "feed.atom">>, FALSE)}

QiitaPost == Url(Qiita, <<"alice", "items", "0123456789ab">>, FALSE)

EntryPool ==
    {Entry(title, link, raw) :
        title \in {TitleA, TitleB, <<" ">>},
        link \in {<<>>, <<QiitaPost>>},
        raw \in {NoText, JunkHint, AbsHint(OldTime), AbsHint(THRESHOLD),
                 AbsHint(RecentTime)}}

FeedInit ==
    /\ fd_url \in FeedPages
    /\ \/ fd_resp = None
       \/ \E wellformed \in BOOLEAN, entries \in SeqsUpTo(EntryPool, MaxEntries) :
             fd_resp = Feed(wellformed, entries)
    /\ fd_out = <<>>
    /\ MainIdle /\ UrlIdle /\ LbIdle /\ AnchorIdle /\ ListIdle /\ DedupeIdle /\ ExtractIdle
    /\ SummaryIdle /\ ScoreIdle /\ OrderIdle

CallCollectFromFeed ==
    /\ fd_out = <<>>
    /\ fd_out' = <<collect_from_feed(fd_url, fd_resp)>>
    /\ UNCHANGED <<fd_url, fd_resp, mainVars, urlVars, lbVars, anchorVars, listVars,
                   dedupeVars, extractVars, summaryVars, scoreVars, orderVars>>

FeedNext == CallCollectFromFeed

SpecFeed == FeedInit /\ [][FeedNext]_vars

\* C15: a syndication-feed item becomes a Candidate only if its parsed
\* publish timestamp satisfies the lookback predicate; an item with a
\* missing or an out-of-window timestamp is excluded unless the feed's host
\* is in ALLOW_NO_LIST_TIME.
C15_FeedAdmission ==
    fd_out # <<>> =>
        \A i \in DOMAIN fd_out[1].items :
            \/ norm_host(fd_url.netloc) \in ALLOW_NO_LIST_TIME
            \/ /\ fd_out[1].items[i].list_time_guess # <<>>
               /\ within_lookback(fromisoformat(fd_out[1].items[i].list_time_guess))

(***************************************************************************)
(* SpecScore: score_link_by_rules on one link of one index page, the link  *)
(* on the page's host or on another host.                                  *)
(***************************************************************************)
ScorePaths ==
    {[path |-> <<"towards-data-science", "story-0123456789ab">>, slash |-> FALSE],
     [path |-> <<"p", "0123456789ab">>, slash |-> FALSE],
     [path |-> <<"tag", "python">>, slash |-> FALSE],
     [path |-> <<"about", "a", "b", "c", "d">>, slash |-> FALSE],
     [path |-> <<"blog", "my-post">>, slash |-> FALSE],
     [path |-> <<"category", "ai">>, slash |-> TRUE],
     [path |-> <<"story-0123456789ab">>, slash |-> FALSE],
     [path |-> <<>>, slash |-> FALSE]}

ScoreInit ==
    /\ \E base \in ListPages :
          /\ sc_base = base.netloc
          /\ sc_href \in
                {Url(h, p.path, p.slash) :
                    h \in {base.netloc, Medium, <<"www">> \o Medium}, p \in ScorePaths}
                \cup {[Url(<<>>, <<>>, FALSE) EXCEPT !.scheme = "mailto"]}
    /\ sc_out = <<>>
    /\ MainIdle /\ UrlIdle /\ LbIdle /\ AnchorIdle /\ ListIdle /\ DedupeIdle /\ ExtractIdle
    /\ SummaryIdle /\ FeedIdle /\ OrderIdle

CallScoreLinkByRules ==
    /\ sc_out = <<>>
    /\ sc_out' = <<score_link_by_rules(sc_href, sc_base)>>
    /\ UNCHANGED <<sc_href, sc_base, mainVars, urlVars, lbVars, anchorVars, listVars,
                   dedupeVars, extractVars, summaryVars, feedVars, orderVars>>

ScoreNext == CallScoreLinkByRules

SpecScore == ScoreInit /\ [][ScoreNext]_vars

\* C17: when the index page's host may link out to a different host and
\* the link points to that other host, the include and exclude patterns
\* that score the link are those of the SiteRule of the link's host, not
\* those of the base host.
C17_LinkHostRules ==
    (/\ sc_out # <<>>
     /\ IsHttp(sc_href)
     /\ norm_host(sc_href.netloc) # norm_host(sc_base)
     /\ norm_host(sc_href.netloc) \in CROSS_HOST_ALLOW(norm_host(sc_base)))
        => sc_out[1] = RuleScore(sc_href, SITE_RULES(norm_host(sc_href.netloc)))

(***************************************************************************)
(* SpecOrder: main run on a list of harvested candidates, then run again   *)
(* on the same candidates collected in another order, extract_article      *)
(* returning the same dict for the same link in both runs.                 *)
(***************************************************************************)
MaxHarvest == 2

\* the body of the article loop for the candidate it and the dict a
ArticleStep(it, a, pub_dt, configured, acc) ==
    IF ~IsHttp(it.link) THEN acc
    ELSE IF ~within_lookback(pub_dt) THEN acc
    ELSE Append(acc, Record(it, a, pub_dt, configured, TRUE))

RECURSIVE ArticleLoop(_, _, _, _)
ArticleLoop(cands, arts, configured, acc) ==
    IF cands = <<>> THEN acc
    ELSE ArticleLoop(Tail(cands), arts, configured,
            ArticleStep(cands[1], arts[cands[1].link],
                        ResolvePubDt(arts[cands[1].link], cands[1]), configured, acc))

\* steps 3 to 5 of main on the collected rows
RunMain(rows, arts, configured) ==
    dedupe_by_title_keep_latest(
        ArticleLoop(dedupe_by_title_keep_latest(PrepareAll(rows), "list_time_guess"),
                    arts, configured, <<>>),
        "published_at")

OrderLinks == {ZennPost, ExampleStory}

OrderRows ==
    {[source_list |-> Url(HuggingFace, <<"blog">>, FALSE), title |-> title, link |-> link,
      list_time_guess |-> guess, list_time_raw |-> NoText] :
        title \in {TitleA, TitleALoud, TitleB},
        link \in OrderLinks,
        guess \in {<<>>, isoformat(THRESHOLD), isoformat(RecentTime)}}

OrderPages ==
    {ArticlePage(Txt(0, 300, 0), None, EmptyText, <<<<>>, <<>>>>, <<>>),
     ArticlePage(Txt(0, 300, 0), None, EmptyText, <<<<>>, <<>>>>, <<AbsHint(RecentTime)>>),
     ArticlePage(Txt(0, 300, 0), None, EmptyText, <<<<>>, <<>>>>, <<AbsHint(OldTime)>>)}

OrderInit ==
    /\ od_rows \in SeqsUpTo(OrderRows, MaxHarvest)
    /\ \E pages \in [OrderLinks -> OrderPages] :
          od_arts = [u \in OrderLinks |-> extract_article(u, pages[u], EmptyText)]
    /\ od_runs = <<>>
    /\ MainIdle /\ UrlIdle /\ LbIdle /\ AnchorIdle /\ ListIdle /\ DedupeIdle /\ ExtractIdle
    /\ SummaryIdle /\ FeedIdle /\ ScoreIdle

orderFrame ==
    <<od_rows, od_arts, mainVars, urlVars, lbVars, anchorVars, listVars, dedupeVars,
      extractVars, summaryVars, feedVars, scoreVars>>

FirstRun ==
    /\ od_runs = <<>>
    /\ od_runs' = <<RunMain(od_rows, od_arts, FALSE)>>
    /\ UNCHANGED orderFrame

\* the same candidates, collected in the order p
SecondRun ==
    /\ Len(od_runs) = 1
    /\ \E p \in Orderings(Len(od_rows)) :
          od_runs' = Append(od_runs, RunMain(Reordered(od_rows, p), od_arts, FALSE))
    /\ UNCHANGED orderFrame

OrderNext == FirstRun \/ SecondRun

SpecOrder == OrderInit /\ [][OrderNext]_vars

RecordSet(rows) == {rows[i] : i \in DOMAIN rows}

\* C18: the order in which the same harvested candidates are collected is
\* irrelevant to the outcome: with the same extraction result per URL, two
\* runs that differ only in that order produce the same set of
\* ArticleRecords.
C18_OrderIrrelevant ==
    Len(od_runs) = 2 => RecordSet(od_runs[1]) = RecordSet(od_runs[2])

\* the publish time main resolves for the harvested row r: the article-level
\* timestamp of its link, else its own listTimeGuess
ResolvedTime(r) == ResolvePubDt(od_arts[PrepareRow(r).link], PrepareRow(r))

\* the record rec comes from the harvested row r
DerivedFrom(rec, r) ==
    /\ rec.url = FinalUrl(PrepareRow(r).link, od_arts[PrepareRow(r).link])
    /\ rec.title = TitleUse(od_arts[PrepareRow(r).link], PrepareRow(r).title)

\* C22: no in-window article is lost to the candidate-stage deduplication:
\* if a harvested candidate has a resolved publish time within the lookback
\* window, the final result holds a record derived from a candidate with
\* the same normalized title.
C22_NoInWindowLoss ==
    od_runs # <<>> =>
        \A i \in DOMAIN od_rows :
            (/\ Strip(od_rows[i].title) # <<>>
             /\ IsHttp(od_rows[i].link)
             /\ within_lookback(ResolvedTime(od_rows[i])))
                => \E k \in DOMAIN od_runs[1], j \in DOMAIN od_rows :
                      /\ normalize_title(od_rows[j].title)
                            = normalize_title(od_rows[i].title)
                      /\ DerivedFrom(od_runs[1][k], od_rows[j])

====
